---- MODULE Spec2Model ----
(***************************************************************************)
(* Meeting state machine of the conferencing backend                       *)
(* (controllers/meetingController.js over models/Meeting.js and            *)
(* models/User.js).  One meeting document, addressed by its public         *)
(* meetingId, and the statistics of the users that act on it.              *)
(*                                                                         *)
(* Requests are served one at a time in Spec: a handler runs from its      *)
(* findOne to its response, and the client receives the response before    *)
(* the next request is issued.  SpecClock adds the passing of time (the    *)
(* value `new Date()` returns), which the handlers only write (joinedAt)   *)
(* and never read.  The fields leftAt, scheduledFor and                    *)
(* statistics.totalDuration are written and never read by these handlers   *)
(* and are left out of the document.                                       *)
(***************************************************************************)
EXTENDS Integers, Sequences, FiniteSets, TLC

\* ---------------------------------------------------------------- bounds
NumUsers == 3
MaxTime == 1
MaxCap == 2
MaxReqs == 2
MaxSockets == 3
MaxClockSteps == 2
MaxJobs == 1
MaxRateCalls == 3
MaxSeconds == 3
MaxChats == 2
MaxJoins == 2

\* ------------------------------------------------------ program constants
\* settings.maxParticipants: { type: Number, default: 50 }
DefaultMaxParticipants == 50

Users == 1..NumUsers
\* The users differ only in their ids, which the handlers compare for equality
\* alone: the one meeting of the model is created by the first of them.
Creators == {CHOOSE u \in Users : \A w \in Users : u <= w}
Times == 0..MaxTime

\* participants[].status enum and participants[].role enum of the schema
ParticipantStatusEnum == {"joined", "left", "removed"}
ParticipantRoleEnum == {"host", "co-host", "participant"}
\* status enum of the schema
MeetingStatusEnum == {"scheduled", "ongoing", "ended", "cancelled"}

\* Meeting.findOne({ meetingId }) found nothing
NoMeeting == [status |-> "none"]
\* requests in flight at the same time (SpecConc), numbered as they arrive
ReqIds == 1..MaxReqs
NoReq == [op |-> "none", user |-> 0, pw |-> "", pc |-> "idle",
          loaded |-> NoMeeting, local |-> NoMeeting, code |-> 0]
\* no handler has answered yet
NoRes == [op |-> "none", user |-> 0, code |-> 0, msg |-> ""]

\* req.body.password of a join request: absent, or JSON null (meeting.password
\* is never set by these handlers and keeps the schema default null)
PasswordInputs == {"undefined", "null"}

\* schema defaults of the settings the state machine reads
DefaultSettings ==
    [maxParticipants |-> DefaultMaxParticipants, requirePassword |-> FALSE, enableChat |-> TRUE]
EmptySettings == [k \in {} |-> TRUE]
\* req.body.settings: any subset of the keys, with small values
SettingsInputs ==
    {EmptySettings}
    \cup {[maxParticipants |-> c] : c \in 1..MaxCap}
    \cup {[requirePassword |-> b] : b \in BOOLEAN}
    \cup {[maxParticipants |-> c, requirePassword |-> b] : c \in 1..MaxCap, b \in BOOLEAN}

\* { ...a, ...b }
Merge(a, b) == [k \in DOMAIN a \cup DOMAIN b |-> IF k \in DOMAIN b THEN b[k] ELSE a[k]]

VARIABLES
    meeting,   \* the persisted meeting document, or NoMeeting
    stats,     \* stats[u]: User.statistics of user u
    now,       \* the clock: what new Date() returns
    res,       \* the response on its way to the client, or NoRes
    reqs,      \* reqs[r]: a join or leave request served step by step (SpecConc)
    base,      \* the meeting document when the requests in reqs began
    qs,        \* the QueueService: its queues, workers, fallback timers, mails sent
    io,        \* the socket.io server: connected sockets and the last emission
    cache,     \* the CacheService and the Redis keys it keeps
    joins,     \* joins[id]: the join-meeting handler of socket id, between its awaits
    chat,      \* the chat array of the meeting document and the last chat broadcast
    mom,       \* the MeetingMinutes record of the meeting, the LLM calls and the mails
    peers      \* the browsers: events received and peer connections made

vars == <<meeting, stats, now, res, reqs, base, qs, io, cache, joins, chat, mom, peers>>

\* ------------------------------------------------------------- documents
NewStatistics == [totalParticipants |-> 0, peakParticipants |-> 0, totalDuration |-> 0]

\* a participants[] subdocument
Participant(u, role, status, t) ==
    [user |-> u, role |-> role, status |-> status, joinedAt |-> t]

\* new Meeting({...}) with the schema defaults applied
NewMeeting(u, settings, status) ==
    [host |-> u,
     status |-> status,
     password |-> "null",
     scheduledFor |-> now,
     settings |-> Merge(DefaultSettings, settings),
     participants |-> <<>>,
     statistics |-> NewStatistics,
     v |-> 0]

\* participants.filter(p => p.status === 'joined'), as indexes in list order
JoinedIdx(m) == {i \in DOMAIN m.participants : m.participants[i].status = "joined"}
JoinedCount(m) == Cardinality(JoinedIdx(m))

Min(S) == CHOOSE x \in S : \A y \in S : x <= y

\* Array.prototype.find: the first index whose entry satisfies the test, 0 if none
FirstIdx(S) == IF S = {} THEN 0 ELSE Min(S)

\* Mongoose validation of a document before it is written: enum validators
ValidateFails(doc) ==
    \/ doc.status \notin MeetingStatusEnum
    \/ \E i \in DOMAIN doc.participants :
          \/ doc.participants[i].status \notin ParticipantStatusEnum
          \/ doc.participants[i].role \notin ParticipantRoleEnum
Validate(doc) == ~ValidateFails(doc)

\* User.findByIdAndUpdate(u, { $inc: {...} })
IncStats(s, u, keys) ==
    [s EXCEPT ![u] = [k \in DOMAIN s[u] |-> IF k \in keys THEN s[u][k] + 1 ELSE s[u][k]]]

\* res.status(code).json({ success, message })
Respond(op, u, code, msg) == [op |-> op, user |-> u, code |-> code, msg |-> msg]

\* ------------------------------------------------------------ persistence
\* Mongoose sends a save() of a loaded document as the delta of its modified
\* paths: a changed field of an existing array element is a positional $set, a
\* pushed element a $push, a changed top-level or nested field a $set.
ChangedFields(stored, loaded, local) ==
    [k \in DOMAIN stored |-> IF local[k] # loaded[k] THEN local[k] ELSE stored[k]]

\* the save sets a field of an element that was already in the loaded array
HasPositionalSet(loaded, local) ==
    \E i \in DOMAIN loaded.participants : local.participants[i] # loaded.participants[i]

\* the elements pushed since the load
Pushed(loaded, local) ==
    SubSeq(local.participants, Len(loaded.participants) + 1, Len(local.participants))

\* the stored document after the delta (loaded -> local) is applied to it
ApplyDelta(stored, loaded, local) ==
    [host |-> IF local.host # loaded.host THEN local.host ELSE stored.host,
     status |-> IF local.status # loaded.status THEN local.status ELSE stored.status,
     password |-> stored.password,
     scheduledFor |-> stored.scheduledFor,
     settings |-> ChangedFields(stored.settings, loaded.settings, local.settings),
     statistics |-> ChangedFields(stored.statistics, loaded.statistics, local.statistics),
     participants |->
        [i \in DOMAIN stored.participants |->
            IF i \in DOMAIN loaded.participants
            THEN ChangedFields(stored.participants[i], loaded.participants[i], local.participants[i])
            ELSE stored.participants[i]]
        \o Pushed(loaded, local),
     v |-> IF Len(Pushed(loaded, local)) > 0 THEN stored.v + 1 ELSE stored.v]

\* meeting.save() of a document loaded by findOne: a positional $set carries
\* the loaded version in its filter (VersionError when the stored version has
\* moved on), a $push only increments the version.
Save(stored, loaded, local) ==
    IF ValidateFails(local) THEN [ok |-> FALSE, doc |-> stored]
    ELSE IF HasPositionalSet(loaded, local) /\ stored.v # loaded.v
         THEN [ok |-> FALSE, doc |-> stored]
         ELSE [ok |-> TRUE, doc |-> ApplyDelta(stored, loaded, local)]

\* meeting.save() of a new document: validated whole, then inserted
Insert(stored, doc) ==
    IF ValidateFails(doc) THEN [ok |-> FALSE, doc |-> stored] ELSE [ok |-> TRUE, doc |-> doc]

\* ------------------------------------------------------------ joinMeeting
\* joinMeeting without its "Check max participants" block
JoinRefusalNoFullCheck(m, pw) ==
    IF m = NoMeeting THEN [code |-> 404, msg |-> "Meeting not found"]
    ELSE IF m.status = "ended" \/ m.status = "cancelled"
         THEN [code |-> 400, msg |-> "Meeting is no longer available"]
    ELSE IF m.settings.requirePassword /\ m.password # pw
         THEN [code |-> 401, msg |-> "Incorrect meeting password"]
    ELSE [code |-> 0, msg |-> ""]

\* the early returns of joinMeeting: the refusal's [code, msg], or code 0
JoinRefusal(m, pw) ==
    IF m = NoMeeting THEN [code |-> 404, msg |-> "Meeting not found"]
    ELSE IF m.status = "ended" \/ m.status = "cancelled"
         THEN [code |-> 400, msg |-> "Meeting is no longer available"]
    ELSE IF m.settings.requirePassword /\ m.password # pw
         THEN [code |-> 401, msg |-> "Incorrect meeting password"]
    ELSE IF JoinedCount(m) >= m.settings.maxParticipants
         THEN [code |-> 400, msg |-> "Meeting is full"]
    ELSE [code |-> 0, msg |-> ""]

\* meeting.participants.find(p => p.user === userId)
ExistingIdx(m, u) == FirstIdx({i \in DOMAIN m.participants : m.participants[i].user = u})

\* the statistics incremented on every join, not only on the first
IsFirstJoinAlways(m, u) == TRUE

IsFirstJoin(m, u) == ExistingIdx(m, u) = 0

\* the participant push / rejoin of joinMeeting
AddParticipant(m, u, t) ==
    LET i == ExistingIdx(m, u) IN
    IF i = 0
    THEN [m EXCEPT !.participants = Append(@, Participant(u, "participant", "joined", t))]
    ELSE IF m.participants[i].status # "joined"
         THEN [m EXCEPT !.participants[i].status = "joined", !.participants[i].joinedAt = t]
         ELSE m

\* if (meeting.status === 'scheduled') meeting.status = 'ongoing'
StartIfScheduled(m) == IF m.status = "scheduled" THEN [m EXCEPT !.status = "ongoing"] ELSE m

\* the document joinMeeting hands to save()
JoinMutate(m, u, t) == StartIfScheduled(AddParticipant(m, u, t))

\* ----------------------------------------------------------- leaveMeeting
\* meeting.participants.find(p => p.user === userId && p.status === 'joined')
JoinedIdxOf(m, u) ==
    FirstIdx({i \in DOMAIN m.participants :
                 m.participants[i].user = u /\ m.participants[i].status = "joined"})

MarkLeft(m, i) ==
    LET m1 == [m EXCEPT !.participants[i].status = "left"]
    IN [m1 EXCEPT !.statistics.totalParticipants = JoinedCount(m1)]

\* coHost || remainingParticipants[0], as an index of participants
NewHostIdx(m) ==
    LET coHost == FirstIdx({j \in JoinedIdx(m) : m.participants[j].role = "co-host"})
    IN IF coHost # 0 THEN coHost ELSE Min(JoinedIdx(m))

\* the transfer without `newHost.role = 'host'`
TransferHostNoPromotion(m, i, nh) ==
    LET m2 == [m EXCEPT !.participants[i].role = "participant"]
    IN [m2 EXCEPT !.host = m.participants[nh].user]

\* the transfer without `meeting.host = newHost.user`
TransferHostKeepsOwner(m, i, nh) ==
    LET m1 == [m EXCEPT !.participants[nh].role = "host"]
    IN [m1 EXCEPT !.participants[i].role = "participant"]

\* the transfer without `participant.role = 'participant'`
TransferHostNoDemotion(m, i, nh) ==
    LET m1 == [m EXCEPT !.participants[nh].role = "host"]
    IN [m1 EXCEPT !.host = m.participants[nh].user]

TransferHost(m, i, nh) ==
    LET m1 == [m EXCEPT !.participants[nh].role = "host"]
        m2 == [m1 EXCEPT !.participants[i].role = "participant"]
    IN [m2 EXCEPT !.host = m.participants[nh].user]

\* the host's leave without the `else` branch that ends the meeting
HostLeavesNeverEnds(m, i) ==
    IF JoinedIdx(m) # {} THEN TransferHost(m, i, NewHostIdx(m)) ELSE m

\* if (participant.role === 'host') { ... }, after the leaver is marked left
HostLeaves(m, i) ==
    IF JoinedIdx(m) # {}
    THEN TransferHost(m, i, NewHostIdx(m))
    ELSE [m EXCEPT !.status = "ended"]

\* the document leaveMeeting hands to save(); i is the leaver's joined entry
LeaveMutate(m, i) ==
    LET m1 == MarkLeft(m, i)
    IN IF m.participants[i].role = "host" THEN HostLeaves(m1, i) ELSE m1

\* ----------------------------------------------------------- QueueService
\* interval.minutes * 60 * 1000
MsPerMinute == 60 * 1000

\* reminderIntervals of scheduleReminders, in minutes
ReminderIntervals == <<60, 30, 15, 5>>
Intervals == {ReminderIntervals[i] : i \in DOMAIN ReminderIntervals}
\* intervals of cancelReminders
CancelIntervals == {60, 30, 15, 5}

\* no job with the id reminder-<meetingId>-<minutes> in the reminder queue
NoJob == [state |-> "none", delay |-> 0, at |-> 0]
\* queues.reminder.add(id, data, { delay, jobId: id }) at time t
DelayedJob(delay, t) == [state |-> "delayed", delay |-> delay, at |-> t + delay]

\* the data of an email job
ReminderMail(m) == [type |-> "meeting-reminder", minutes |-> m]
MinutesMail == [type |-> "meeting-minutes", minutes |-> 0]

\* addEmailJob: attempts: 3
EmailAttempts == 3
\* addMomGenerationJob: attempts: 2
MomGenerationAttempts == 2
\* addRecordingJob: attempts: 2
RecordingAttempts == 2

\* QUEUE_NAMES
QueueNames == {"email", "reminder", "momGeneration", "recording"}

\* the `attempts` of the options each add call passes. scheduleReminders passes
\* { delay, jobId, removeOnComplete } only and the queues are made without
\* defaultJobOptions, so a reminder job has no `attempts`: it is tried once
JobAttempts(queue) ==
    CASE queue = "email" -> EmailAttempts
      [] queue = "momGeneration" -> MomGenerationAttempts
      [] queue = "recording" -> RecordingAttempts
      [] OTHER -> 1

\* the job.data.type of the jobs of a queue
JobTypes(queue) ==
    IF queue = "email" THEN {"meeting-reminder", "meeting-minutes"} ELSE {queue}

\* what goes wrong while a handler runs: nothing, transporter.sendMail rejects,
\* or another awaited call rejects (a load, the LLM call, a missing file)
Faults(queue) ==
    IF queue = "email" THEN {"none", "transport", "error"} ELSE {"none", "error"}

\* whether the handler of the worker throws. processReminderEmail awaits
\* sendMail bare; sendMeetingMinutes catches the rejection of sendMail for each
\* recipient and pushes { status: 'failed' } to the results it returns
HandlerThrows(type, fault) ==
    \/ fault = "error"
    \/ fault = "transport" /\ type = "meeting-reminder"

\* what the handler returns when it does not throw
HandlerResult(type, fault) ==
    IF type = "meeting-minutes"
    THEN <<IF fault = "transport" THEN "failed" ELSE "sent">>
    ELSE <<>>

\* no job followed through its attempts
NoTask ==
    [queue |-> "none", type |-> "none", state |-> "none", attempts |-> 0,
     attemptsMade |-> 0, fault |-> "none", results |-> <<>>]

\* queue.add(name, data, opts): the job waits for a worker
WaitingTask(queue, type) ==
    [NoTask EXCEPT !.queue = queue, !.type = type, !.state = "waiting",
                   !.attempts = JobAttempts(queue)]

\* one run of the handler on the job: a return completes it, a throw counts an
\* attempt and the job waits for its backoff while attempts are left, else it
\* is failed
Attempt(job, fault) ==
    IF HandlerThrows(job.type, fault)
    THEN [job EXCEPT !.attemptsMade = @ + 1,
                     !.fault = fault,
                     !.state = IF job.attemptsMade + 1 < job.attempts
                               THEN "waiting" ELSE "failed"]
    ELSE [job EXCEPT !.fault = fault,
                     !.state = "completed",
                     !.results = HandlerResult(job.type, fault)]

\* new QueueService(): nothing initialized, no queues, no workers
NewQueueService ==
    [initialized |-> FALSE,
     phase |-> "starting",
     reminder |-> [m \in Intervals |-> NoJob],
     email |-> {},
     timers |-> {},
     sent |-> {},
     momGeneration |-> 0,
     recording |-> 0,
     scheduled |-> FALSE,
     job |-> NoTask]

\* queue.add / queue.getJob after queue.close(): the connection is closed
QueuesClosed(q) == q.initialized /\ q.phase = "closed"

\* const delay = reminderTime - now
ReminderDelay(scheduledFor, m, t) == (scheduledFor - m * MsPerMinute) - t

\* the intervals scheduleReminders makes a reminder for, with `delay >= 0`
DueIntervalsInclusive(scheduledFor, t) ==
    {m \in Intervals : ReminderDelay(scheduledFor, m, t) >= 0}

\* the intervals scheduleReminders makes a reminder for: if (delay > 0)
DueIntervals(scheduledFor, t) ==
    {m \in Intervals : ReminderDelay(scheduledFor, m, t) > 0}

\* scheduleReminders(meeting, user) at time t: a delayed job per due interval
\* (an add under an id already in the queue changes nothing), or without the
\* queues a setTimeout per due interval
ScheduleReminders(q, scheduledFor, t) ==
    LET due == DueIntervals(scheduledFor, t) IN
    IF q.initialized
    THEN [q EXCEPT !.reminder =
            [m \in Intervals |->
               IF m \in due /\ q.reminder[m].state = "none"
               THEN DelayedJob(ReminderDelay(scheduledFor, m, t), t)
               ELSE q.reminder[m]]]
    ELSE [q EXCEPT !.timers =
            @ \cup {[minutes |-> m, delay |-> ReminderDelay(scheduledFor, m, t),
                     at |-> t + ReminderDelay(scheduledFor, m, t)] : m \in due}]

\* cancelReminders(meetingId): job.remove() of each job found; the remove of a
\* job a worker holds throws and is ignored, as is every error of a closed queue
CancelReminders(q) ==
    IF ~q.initialized \/ QueuesClosed(q) THEN q
    ELSE [q EXCEPT !.reminder =
            [m \in Intervals |->
               IF m \in CancelIntervals /\ q.reminder[m].state = "delayed"
               THEN NoJob ELSE q.reminder[m]]]

\* what an enqueue call did: "queued", "executed", "skipped" or "rejected"
EmailOutcome(q) ==
    IF ~q.initialized THEN "executed"
    ELSE IF QueuesClosed(q) THEN "rejected" ELSE "queued"

\* addEmailJob(type, data): sent at once without the queues, else queued
AddEmailJob(q, mail) ==
    IF ~q.initialized THEN [q EXCEPT !.sent = @ \cup {mail}]
    ELSE IF QueuesClosed(q) THEN q
    ELSE [q EXCEPT !.email = @ \cup {mail}]

\* addMomGenerationJob / addRecordingJob: return null without the queues
BackgroundOutcome(q) ==
    IF ~q.initialized THEN "skipped"
    ELSE IF QueuesClosed(q) THEN "rejected" ELSE "queued"

\* ------------------------------------------------------- socket.io server
\* socket.id of the sockets, in the order they connect; never a user id
SocketIds == (NumUsers + 1)..(NumUsers + MaxSockets)
\* data.to is undefined
NoTo == 0
SignalEvents == {"offer", "answer", "ice-candidate"}

\* no event is being handled
NoEvent == [event |-> "none", socket |-> 0, to |-> NoTo, from |-> 0]
\* the event `event` of the socket at index i, with data.to and data.from
Inbound(event, i, to, from) == [event |-> event, socket |-> i, to |-> to, from |-> from]

\* a socket that passed the authentication middleware: socket.userId =
\* decoded.userId.  inRoom: the socket joined the room of the one meeting;
\* rooms and meetingId: the rooms it joined by name and socket.meetingId, where
\* more than one meeting is looked at
Socket(id, u) == [id |-> id, userId |-> u, inRoom |-> FALSE, rooms |-> {}, meetingId |-> 0]

\* io = new Server(server): nobody connected, nothing emitted
NewServer == [sockets |-> <<>>, nextId |-> NumUsers + 1, in |-> NoEvent, out |-> {}]

\* emit(event, { ...data, from }) received by socket `id`
Delivery(id, event, from, to) == [socket |-> id, event |-> event, from |-> from, to |-> to]

\* Array.from(io.sockets.sockets.values()).find(s => s.userId === to || s.id === to),
\* as an index of the sockets in connection order, 0 if none
TargetIdx(srv, to) ==
    FirstIdx({i \in DOMAIN srv.sockets : srv.sockets[i].userId = to \/ srv.sockets[i].id = to})

\* socket.to(meetingId): the sockets of the room other than the sender
RoomOthers(srv, i) ==
    {j \in DOMAIN srv.sockets : j # i /\ srv.sockets[j].inRoom}

\* socket.userId || socket.id
Sender(s) == IF s.userId # 0 THEN s.userId ELSE s.id

\* the signaling handler that stamps the client's own from field
RouteSignalTrustsClient(srv, i, event, to, from) ==
    LET t == TargetIdx(srv, to) IN
    IF to # NoTo
    THEN IF t # 0 THEN {Delivery(srv.sockets[t].id, event, IF from # 0 THEN from ELSE Sender(srv.sockets[i]), to)}
         ELSE {}
    ELSE {Delivery(srv.sockets[j].id, event, Sender(srv.sockets[i]), to) : j \in RoomOthers(srv, i)}

\* socket.on('offer' | 'answer' | 'ice-candidate'): the emissions for an event
\* of socket i whose payload carries `to` and the client's `from`
RouteSignal(srv, i, event, to, from) ==
    LET t == TargetIdx(srv, to) IN
    IF to # NoTo
    THEN IF t # 0 THEN {Delivery(srv.sockets[t].id, event, Sender(srv.sockets[i]), to)}
         ELSE {}
    ELSE {Delivery(srv.sockets[j].id, event, Sender(srv.sockets[i]), to) : j \in RoomOthers(srv, i)}

\* ------------------------------------------------------------ cache service
\* checkRateLimit(key, limit, windowSeconds) is called with these arguments
RateLimit == 2
RateWindow == 2
\* calls of checkRateLimit on the one key, numbered as they are made
RateCalls == 1..MaxRateCalls

\* a Redis string key holding a counter: absent (count 0), or present with or
\* without an expiry time
NoKey == [count |-> 0, expires |-> FALSE, at |-> 0]
\* the key as Redis sees it at time t: gone once its expiry has passed
Live(k, t) == IF k.expires /\ t >= k.at THEN NoKey ELSE k
\* INCR key at time t: an absent key counts from 0 and has no expiry
Incr(k, t) == [Live(k, t) EXCEPT !.count = @ + 1]
\* EXPIRE key seconds at time t: no effect on an absent key
Expire(k, t, seconds) ==
    IF Live(k, t).count = 0 THEN Live(k, t)
    ELSE [Live(k, t) EXCEPT !.expires = TRUE, !.at = t + seconds]

Max(a, b) == IF a >= b THEN a ELSE b

\* { allowed: current <= limit, remaining: Math.max(0, limit - current) }
RateResult(current, limit) ==
    [allowed |-> current <= limit, remaining |-> Max(0, limit - current)]
\* { allowed: true, remaining: limit }: no client, or a cache call threw
RateFailOpen(limit) == [allowed |-> TRUE, remaining |-> limit]

\* a call of checkRateLimit between its awaits: where it stands, what INCR
\* returned, whether a cache call threw, and what it returned to its caller
NoCall == [pc |-> "idle", current |-> 0, threw |-> FALSE, counted |-> FALSE,
           expect |-> TRUE, result |-> RateFailOpen(RateLimit)]

\* the window the counter is meant to keep: it opens with the first increment
\* and is over windowSeconds later
NoWindow == [open |-> FALSE, start |-> 0, n |-> 0]
Counted(w, t) ==
    IF w.open /\ t < w.start + RateWindow
    THEN [w EXCEPT !.n = @ + 1]
    ELSE [open |-> TRUE, start |-> t, n |-> 1]

\* new CacheService(): client null until initialize(); Redis holds no key
NewCache ==
    [phase |-> "starting", client |-> FALSE, up |-> TRUE, online |-> {}, key |-> NoKey,
     calls |-> [r \in RateCalls |-> NoCall], window |-> NoWindow]

\* addOnlineUser(meetingId, userId, userData): hset of the user's field in the
\* meeting's hash; false without a client or when the call throws
AddOnlineUser(c, u, ok) ==
    IF ~c.client THEN [cache |-> c, returned |-> "false"]
    ELSE IF ok THEN [cache |-> [c EXCEPT !.online = @ \cup {u}], returned |-> "true"]
         ELSE [cache |-> c, returned |-> "false"]

\* removeOnlineUser(meetingId, userId): hdel of the user's field
RemoveOnlineUser(c, u, ok) ==
    IF c.client /\ ok THEN [c EXCEPT !.online = @ \ {u}] ELSE c

\* getOnlineUsers(meetingId): the fields of the hash, [] without a client or
\* when the call throws
GetOnlineUsers(c, ok) == IF c.client /\ ok THEN c.online ELSE {}

\* ----------------------------------------------------------- meeting minutes
\* what the LLM call comes back with: the JSON object asked for, the same inside
\* a ```json fence, text that is no JSON, or an error (bad status, no candidate)
LlmReplies == {"json", "fenced json", "prose", "error"}

\* MeetingMinutes.findOne({ meetingId }) found nothing
NoRecord == [status |-> "none", summary |-> "none", error |-> "none"]
\* what one generate request did besides answering
NoRun == [llm |-> FALSE, mailed |-> FALSE]
\* a generate request between its awaits: the user, and the record it holds
\* (0 none, 1 the first record of the meeting, k + 1 the k-th further one)
NoGen == [pc |-> "idle", user |-> 0, doc |-> 0]
\* the MeetingMinutes collection: the record findOne({ meetingId }) returns,
\* the further records of the same meetingId, and the requests being served
NewMinutes ==
    [record |-> NoRecord, run |-> NoRun, others |-> <<>>,
     gens |-> [r \in ReqIds |-> NoGen]]

\* the record a request holds, and the collection after the request saved it
HeldRecord(m, k) == IF k = 1 THEN m.record ELSE m.others[k - 1]
SaveRecord(m, k, rec) ==
    IF k = 1 THEN [m EXCEPT !.record = rec] ELSE [m EXCEPT !.others[k - 1] = rec]

\* new MeetingMinutes(minutesData).save(): the schema's meetingId is indexed,
\* not unique, so the insert succeeds whatever the collection holds
InsertRecord(m, rec) ==
    IF m.record = NoRecord
    THEN [doc |-> 1, minutes |-> [m EXCEPT !.record = rec]]
    ELSE [doc |-> Len(m.others) + 2, minutes |-> [m EXCEPT !.others = Append(@, rec)]]

\* the fences are cut off the trimmed text before JSON.parse
StripFence(text) == IF text = "fenced json" THEN "json" ELSE text

\* parseGeminiResponse(responseText): the fields of the parsed object, or the
\* basic structure with the placeholder summary when JSON.parse throws
ParseGeminiResponse(text) ==
    IF StripFence(text) = "json"
    THEN [summary |-> "parsed", items |-> "parsed"]
    ELSE [summary |-> "placeholder", items |-> "empty"]

\* geminiService.generateMeetingMinutes(...): throws on an API error, else
\* returns what parseGeminiResponse made of the text
GenerateMeetingMinutes(reply) ==
    IF reply = "error"
    THEN [threw |-> TRUE, summary |-> "none", items |-> "none"]
    ELSE [threw |-> FALSE,
          summary |-> ParseGeminiResponse(reply).summary,
          items |-> ParseGeminiResponse(reply).items]

\* the checks of generateMinutes without the one for a completed record
MinutesRefusalNoCompletedCheck(m, rec, u) ==
    IF m = NoMeeting THEN Respond("generate", u, 404, "Meeting not found")
    ELSE IF m.host # u THEN Respond("generate", u, 403, "Only host can generate meeting minutes")
    ELSE NoRes

\* the checks of generateMinutes before anything is written: the response of
\* the refusal, or NoRes
MinutesRefusal(m, rec, u) ==
    IF m = NoMeeting THEN Respond("generate", u, 404, "Meeting not found")
    ELSE IF m.host # u THEN Respond("generate", u, 403, "Only host can generate meeting minutes")
    ELSE IF rec.status = "completed"
         THEN Respond("generate", u, 400, "Meeting minutes already generated")
         ELSE NoRes

\* the record after the try block of generateMinutes: completed with the AI
\* content, or failed with the error of the LLM call or of the mailer
MinutesOutcome(rec, reply, mailer) ==
    LET ai == GenerateMeetingMinutes(reply)
        processing == [rec EXCEPT !.status = "processing"]
    IN IF ai.threw
       THEN [record |-> [processing EXCEPT !.status = "failed", !.error = "llm"],
             run |-> [llm |-> TRUE, mailed |-> FALSE], code |-> 500]
       ELSE IF mailer
            THEN [record |-> [processing EXCEPT !.status = "completed", !.summary = ai.summary],
                  run |-> [llm |-> TRUE, mailed |-> TRUE], code |-> 200]
            ELSE [record |-> [processing EXCEPT !.status = "failed", !.summary = ai.summary,
                                                !.error = "mailer"],
                  run |-> [llm |-> TRUE, mailed |-> FALSE], code |-> 500]

\* ------------------------------------------------------------------- chat
\* req.body.settings of a meeting created for a chat: nothing, or chat switched off
ChatSettingsInputs == {EmptySettings, [enableChat |-> FALSE]}

\* a chat message: its sender and its text, every message sent having its own
ChatMessage(u, n) == [sender |-> u, text |-> n]
\* nothing has been broadcast
NoCast == [message |-> ChatMessage(0, 0), sockets |-> {}]
\* a POST /message between its awaits: the user, the text, and
\* statistics.chatMessages of the document it loaded
NoPost == [pc |-> "idle", user |-> 0, text |-> 0, loaded |-> 0]
\* meeting.chat and statistics.chatMessages of the meeting document, the number
\* of chat messages sent so far, the last chat-message event with the sockets
\* that received it, and the POST /message requests being served
NewChat ==
    [log |-> <<>>, chatMessages |-> 0, sent |-> 0, cast |-> NoCast,
     posts |-> [r \in ReqIds |-> NoPost]]

\* io.to(meetingId): every socket of the room
Room(srv) == {srv.sockets[j].id : j \in {k \in DOMAIN srv.sockets : srv.sockets[k].inRoom}}

\* Meeting.findOneAndUpdate({ meetingId }, { $push: { chat } }): the chat array
\* afterwards; nothing is written when no meeting has that id
PushChat(m, log, message) == IF m = NoMeeting THEN log ELSE Append(log, message)

\* $inc: { 'statistics.chatMessages': 1 } of the same update
IncChat(m, n) == IF m = NoMeeting THEN n ELSE n + 1

\* populatedMeeting.chat[populatedMeeting.chat.length - 1]
LastMessage(log) == log[Len(log)]

\* GET /api/chat/:meetingId, first page: the newest messages first
ChatHistory(m, log) ==
    IF m = NoMeeting THEN <<>> ELSE [i \in 1..Len(log) |-> log[Len(log) + 1 - i]]

\* ---------------------------------------------------- rooms of the server
\* the name of the meeting's room, which is no socket id and no user id
RoomId == NumUsers + MaxSockets + 1
HostControlEvents == {"mute-participant", "remove-participant"}

\* socket.to(meetingId) seen from socket `id`: the ids of the room's other sockets
OthersInRoom(srv, id) ==
    {srv.sockets[j].id : j \in {k \in DOMAIN srv.sockets :
                                   srv.sockets[k].inRoom /\ srv.sockets[k].id # id}}

\* socket.to(name) of the socket at index i: every socket is alone in the room
\* named by its id, the meeting's room has the sockets that joined it
ToRoom(srv, i, name) ==
    {j \in DOMAIN srv.sockets :
        /\ j # i
        /\ \/ srv.sockets[j].id = name
           \/ name = RoomId /\ srv.sockets[j].inRoom}

\* socket.on('mute-participant' | 'remove-participant'): data goes as it came
\* to the room named data.participantId
RouteHostControl(srv, i, event, participantId) ==
    {Delivery(srv.sockets[j].id,
              IF event = "mute-participant" THEN "muted-by-host" ELSE "removed-from-meeting",
              0, participantId) : j \in ToRoom(srv, i, participantId)}

\* an event the join-meeting handler emitted: to which sockets, with which
\* list of sockets as payload, and who else was in the room at that moment
Emitted(event, sockets, list, others) ==
    [event |-> event, sockets |-> sockets, list |-> list, others |-> others]

\* the join-meeting handler of a socket between its awaits: the socket it is
\* looking up, the existingUsers pushed so far, whether a lookup threw
NoJoin ==
    [pc |-> "idle", user |-> 0, cur |-> 0, found |-> {}, failed |-> FALSE, emitted |-> <<>>]

\* for (const socketId of room) with socketId !== socket.id: the next socket
\* of the room that has not been looked up, 0 at the end of the room
NextInRoom(srv, id, found) ==
    LET rest == OthersInRoom(srv, id) \ found IN IF rest = {} THEN 0 ELSE Min(rest)

\* socket.to(meetingId).emit('user-joined', ...)
UserJoined(srv, id) == Emitted("user-joined", OthersInRoom(srv, id), {}, OthersInRoom(srv, id))
\* socket.emit('existing-participants', existingUsers)
ExistingParticipants(srv, id, found) ==
    Emitted("existing-participants", {id}, found, OthersInRoom(srv, id))

\* ------------------------------------------------------- rooms by name
\* the meeting ids a client can put in a payload
MeetingIds == {RoomId, RoomId + 1}
\* the events the server passes on to socket.to(data.meetingId)
BroadcastEvents == {"toggle-audio", "toggle-video", "screen-share", "raise-hand", "reaction"}
\* the name under which an event is passed on
EmittedAs(event) ==
    IF event = "toggle-audio" THEN "audio-toggled"
    ELSE IF event = "toggle-video" THEN "video-toggled"
    ELSE IF event = "raise-hand" THEN "hand-raised"
    ELSE event

\* io.sockets.adapter.rooms.get(m), as indexes of the sockets
Members(srv, m) == {j \in DOMAIN srv.sockets : m \in srv.sockets[j].rooms}

\* socket.on('join-meeting') of socket i for meeting m: what is emitted
RouteJoin(srv, i, m) ==
    LET others == Members(srv, m) \ {i} IN
    {Delivery(srv.sockets[j].id, "user-joined", Sender(srv.sockets[i]), NoTo) : j \in others}
    \cup {Delivery(srv.sockets[i].id, "existing-participants", Sender(srv.sockets[i]), NoTo) : j \in others}

\* the handlers of the signaling and control events of socket i with
\* data.meetingId = m and data.to = to: the target found among all sockets when
\* a signal carries `to`, else socket.to(data.meetingId)
RouteInRoom(srv, i, event, m, to) ==
    LET t == TargetIdx(srv, to) IN
    IF event \in SignalEvents /\ to # NoTo
    THEN IF t # 0 THEN {Delivery(srv.sockets[t].id, event, Sender(srv.sockets[i]), to)} ELSE {}
    ELSE {Delivery(srv.sockets[j].id, EmittedAs(event),
                   IF event \in SignalEvents THEN Sender(srv.sockets[i]) ELSE 0, NoTo) :
             j \in Members(srv, m) \ {i}}

\* ------------------------------------------------------------ browser client
\* the payload of user-joined, the object { socketId, odId, username }: used as
\* a `to` it equals no user id and no socket id
UserJoinedData(from) == RoomId + from

\* a signal the client of socket `id` is about to emit, and the event whose
\* listener makes it
ClientSignal(id, event, to, cause) == [socket |-> id, event |-> event, to |-> to, cause |-> cause]

\* webrtcService.createOffer(userId): sendOffer({ ..., to: userId })
CreateOffer(d, userId) == ClientSignal(d.socket, "offer", userId, d.event)
\* webrtcService.handleOffer(data): sendAnswer({ ..., to: data.from })
HandleOffer(d) == ClientSignal(d.socket, "answer", d.from, d.event)

\* setupSocketListeners: what the listeners of a client do with the event it
\* received; onUserJoined hands the payload itself to createOffer, and
\* existing-participants has no listener
OnEvent(d) ==
    IF d.event = "user-joined" THEN {CreateOffer(d, UserJoinedData(d.from))}
    ELSE IF d.event = "offer" THEN {HandleOffer(d)}
    ELSE {}

\* the clients before anything reached them: nothing to emit, and no socket
\* has been listed to another in an existing-participants event
NewPeers == [outbox |-> {}, listed |-> {}]

\* the pairs <<socket, listed socket>> of the existing-participants events
\* among what a join-meeting handler emitted
Listed(j) ==
    UNION {{<<id, x>> : id \in j.emitted[k].sockets, x \in j.emitted[k].list} :
              k \in {n \in DOMAIN j.emitted : j.emitted[n].event = "existing-participants"}}

Init ==
    /\ meeting = NoMeeting
    /\ stats = [u \in Users |-> [totalMeetings |-> 0, meetingsHosted |-> 0, meetingsAttended |-> 0]]
    /\ now = 0
    /\ res = NoRes
    /\ reqs = [r \in ReqIds |-> NoReq]
    /\ base = NoMeeting
    /\ qs = NewQueueService
    /\ io = NewServer
    /\ cache = NewCache
    /\ joins = [id \in SocketIds |-> NoJoin]
    /\ chat = NewChat
    /\ mom = NewMinutes
    /\ peers = NewPeers
\* ---------------------------------------------------------------- actions
\* A request is taken up once the previous response has been received.
Idle == res = NoRes

HostedKeys == {"meetingsHosted", "totalMeetings"}
AttendedKeys == {"meetingsAttended", "totalMeetings"}

\* POST /api/meetings with req.body.scheduledFor: `scheduledFor || new Date()`,
\* where 0 is as falsy as a missing field
CreateMeetingFor(u, scheduledFor, settings) ==
    /\ Idle
    /\ UNCHANGED <<reqs, base, qs, io, cache, joins, chat, mom, peers>>
    /\ meeting = NoMeeting
    /\ UNCHANGED now
    /\ LET doc == [NewMeeting(u, settings, "scheduled")
                      EXCEPT !.participants = <<Participant(u, "host", "joined", now)>>,
                             !.scheduledFor = IF scheduledFor = 0 THEN now ELSE scheduledFor]
           saved == Insert(meeting, doc)
       IN IF saved.ok
          THEN /\ meeting' = saved.doc
               /\ stats' = IncStats(stats, u, HostedKeys)
               /\ res' = Respond("create", u, 201, "Meeting created successfully")
          ELSE /\ res' = Respond("create", u, 500, "Internal server error")
               /\ UNCHANGED <<meeting, stats>>

\* POST /api/meetings without scheduledFor
CreateMeeting(u, settings) == CreateMeetingFor(u, 0, settings)

\* POST /api/meetings/schedule
ScheduleMeeting(u, sf, settings) ==
    /\ Idle
    /\ UNCHANGED <<reqs, base, io, cache, joins, chat, mom, peers>>
    /\ meeting = NoMeeting
    /\ UNCHANGED now
    /\ IF sf <= now
       THEN /\ res' = Respond("schedule", u, 400, "Scheduled time must be in the future")
            /\ UNCHANGED <<meeting, stats, qs>>
       ELSE LET doc == [NewMeeting(u, settings, "scheduled")
                           EXCEPT !.participants = <<Participant(u, "host", "invited", now)>>]
                saved == Insert(meeting, doc)
            IN IF ~saved.ok
               THEN /\ res' = Respond("schedule", u, 500, "Internal server error")
                    /\ UNCHANGED <<meeting, stats, qs>>
               ELSE IF QueuesClosed(qs) /\ DueIntervals(sf, now) # {}
               THEN /\ meeting' = saved.doc
                    /\ res' = Respond("schedule", u, 500, "Internal server error")
                    /\ UNCHANGED <<stats, qs>>
               ELSE /\ meeting' = saved.doc
                    /\ qs' = [ScheduleReminders(qs, sf, now) EXCEPT !.scheduled = TRUE]
                    /\ stats' = IncStats(stats, u, HostedKeys)
                    /\ res' = Respond("schedule", u, 201, "Meeting scheduled successfully")

\* joinMeeting served from findOne to its response on document m:
\* the saved document, whether the user's statistics were incremented, the response
JoinServed(m, u, pw, t) ==
    LET refusal == JoinRefusal(m, pw) IN
    IF refusal.code # 0
    THEN [doc |-> m, first |-> FALSE, code |-> refusal.code, msg |-> refusal.msg]
    ELSE LET saved == Save(m, m, JoinMutate(m, u, t)) IN
         [doc |-> saved.doc, first |-> IsFirstJoin(m, u),
          code |-> IF saved.ok THEN 200 ELSE 500,
          msg |-> IF saved.ok THEN "Joined meeting successfully" ELSE "Internal server error"]

\* POST /api/meetings/:meetingId/join
JoinMeeting(u, pw) ==
    /\ Idle
    /\ UNCHANGED <<reqs, base, qs, io, cache, joins, chat, mom, peers>>
    /\ UNCHANGED now
    /\ LET served == JoinServed(meeting, u, pw, now) IN
       /\ meeting' = served.doc
       /\ stats' = IF served.first THEN IncStats(stats, u, AttendedKeys) ELSE stats
       /\ res' = Respond("join", u, served.code, served.msg)

\* leaveMeeting served from findOne to its response on document m
LeaveServed(m, u) ==
    IF m = NoMeeting THEN [doc |-> m, code |-> 404, msg |-> "Meeting not found"]
    ELSE LET i == JoinedIdxOf(m, u) IN
         IF i = 0 THEN [doc |-> m, code |-> 200, msg |-> "Left meeting successfully"]
         ELSE LET saved == Save(m, m, LeaveMutate(m, i)) IN
              [doc |-> saved.doc,
               code |-> IF saved.ok THEN 200 ELSE 500,
               msg |-> IF saved.ok THEN "Left meeting successfully" ELSE "Internal server error"]

\* POST /api/meetings/:meetingId/leave
LeaveMeeting(u) ==
    /\ Idle
    /\ UNCHANGED <<reqs, base, qs, io, cache, joins, chat, mom, peers>>
    /\ UNCHANGED <<stats, now>>
    /\ LET served == LeaveServed(meeting, u) IN
       /\ meeting' = served.doc
       /\ res' = Respond("leave", u, served.code, served.msg)

\* the 404 / 403 early returns shared by the host-only handlers
HostOnlyRefusal(m, u, msg) ==
    IF m = NoMeeting THEN [code |-> 404, msg |-> "Meeting not found"]
    ELSE IF m.host # u THEN [code |-> 403, msg |-> msg]
    ELSE [code |-> 0, msg |-> ""]

\* PUT /api/meetings/:meetingId/settings
UpdateMeetingSettings(u, settings) ==
    /\ Idle
    /\ UNCHANGED <<reqs, base, qs, io, cache, joins, chat, mom, peers>>
    /\ UNCHANGED <<stats, now>>
    /\ LET refusal == HostOnlyRefusal(meeting, u, "Only host can update meeting settings") IN
       IF refusal.code # 0
       THEN /\ res' = Respond("settings", u, refusal.code, refusal.msg)
            /\ UNCHANGED meeting
       ELSE LET local == [meeting EXCEPT !.settings = Merge(@, settings)]
                saved == Save(meeting, meeting, local)
            IN /\ meeting' = saved.doc
               /\ res' = IF saved.ok
                         THEN Respond("settings", u, 200, "Meeting settings updated successfully")
                         ELSE Respond("settings", u, 500, "Internal server error")

\* Math.round(ms / 60000): halves go up
RoundMinutes(ms) == (2 * ms + MsPerMinute) \div (2 * MsPerMinute)

\* meeting.status = 'ended' and the total duration, counted from scheduledFor
EndMutate(m, t) ==
    [m EXCEPT !.status = "ended",
              !.statistics.totalDuration = RoundMinutes(t - m.scheduledFor)]

\* POST /api/meetings/:meetingId/end
EndMeeting(u) ==
    /\ Idle
    /\ UNCHANGED <<reqs, base, qs, io, cache, joins, chat, mom, peers>>
    /\ UNCHANGED <<stats, now>>
    /\ LET refusal == HostOnlyRefusal(meeting, u, "Only host can end meeting") IN
       IF refusal.code # 0
       THEN /\ res' = Respond("end", u, refusal.code, refusal.msg)
            /\ UNCHANGED meeting
       ELSE LET saved == Save(meeting, meeting, EndMutate(meeting, now)) IN
            /\ meeting' = saved.doc
            /\ res' = IF saved.ok THEN Respond("end", u, 200, "Meeting ended successfully")
                      ELSE Respond("end", u, 500, "Internal server error")

\* cancelMeeting without its "Can only cancel scheduled meetings" check
CancelRefusalNoStatusCheck(m, u) == HostOnlyRefusal(m, u, "Only host can cancel meeting")

\* the early returns of cancelMeeting
CancelRefusal(m, u) ==
    LET refusal == HostOnlyRefusal(m, u, "Only host can cancel meeting") IN
    IF refusal.code # 0 THEN refusal
    ELSE IF m.status # "scheduled"
         THEN [code |-> 400, msg |-> "Can only cancel scheduled meetings"]
         ELSE refusal

\* POST /api/meetings/:meetingId/cancel
CancelMeeting(u) ==
    /\ Idle
    /\ UNCHANGED <<reqs, base, io, cache, joins, chat, mom, peers>>
    /\ UNCHANGED <<stats, now>>
    /\ LET refusal == CancelRefusal(meeting, u) IN
       IF refusal.code # 0
       THEN /\ res' = Respond("cancel", u, refusal.code, refusal.msg)
            /\ UNCHANGED <<meeting, qs>>
       ELSE LET saved == Save(meeting, meeting, [meeting EXCEPT !.status = "cancelled"]) IN
            /\ meeting' = saved.doc
            /\ qs' = IF saved.ok THEN CancelReminders(qs) ELSE qs
            /\ res' = IF saved.ok THEN Respond("cancel", u, 200, "Meeting cancelled successfully")
                      ELSE Respond("cancel", u, 500, "Internal server error")

\* the client receives the response
Receive ==
    /\ res # NoRes
    /\ res' = NoRes
    /\ UNCHANGED <<meeting, stats, now, reqs, base, qs, io, cache, joins, chat, mom, peers>>

\* time passes
Tick ==
    /\ now < MaxTime
    /\ now' = now + 1
    /\ UNCHANGED <<meeting, stats, res, reqs, base, qs, io, cache, joins, chat, mom, peers>>

\* req.body.scheduledFor of scheduleMeeting
ScheduleDates == 0..(MaxTime + 1)

Next ==
    \/ \E u \in Creators, s \in SettingsInputs : CreateMeeting(u, s)
    \/ \E u \in Users, sf \in ScheduleDates, s \in SettingsInputs : ScheduleMeeting(u, sf, s)
    \/ \E u \in Users, pw \in PasswordInputs : JoinMeeting(u, pw)
    \/ \E u \in Users : LeaveMeeting(u)
    \/ \E u \in Users, s \in SettingsInputs : UpdateMeetingSettings(u, s)
    \/ \E u \in Users : EndMeeting(u)
    \/ \E u \in Users : CancelMeeting(u)
    \/ Receive

Spec == Init /\ [][Next]_vars

NextClock == Next \/ Tick

SpecClock == Init /\ [][NextClock]_vars
\* ------------------------------------------------- handlers step by step
\* A handler runs between its awaits without interruption and may be
\* interleaved with other requests at each await: after findOne (the checks
\* and the changes to the loaded copy are synchronous), after
\* User.findByIdAndUpdate, and at meeting.save().
Quiescent == \A r \in ReqIds : reqs[r].pc = "idle"
Settled == \A r \in ReqIds : reqs[r].pc \in {"idle", "done"}

CanBegin(r) == reqs[r].pc = "idle" /\ \A q \in ReqIds : q < r => reqs[q].pc # "idle"

Answered(op, u, pw, code) ==
    [op |-> op, user |-> u, pw |-> pw, pc |-> "done",
     loaded |-> NoMeeting, local |-> NoMeeting, code |-> code]

\* joinMeeting from findOne up to its first await after the load
BeginJoin(r, u, pw) ==
    /\ Idle
    /\ CanBegin(r)
    /\ base' = IF Quiescent THEN meeting ELSE base
    /\ LET refusal == JoinRefusal(meeting, pw) IN
       reqs' = [reqs EXCEPT ![r] =
                  IF refusal.code # 0
                  THEN Answered("join", u, pw, refusal.code)
                  ELSE [op |-> "join", user |-> u, pw |-> pw,
                        pc |-> IF IsFirstJoin(meeting, u) THEN "stats" ELSE "save",
                        loaded |-> meeting, local |-> JoinMutate(meeting, u, now), code |-> 0]]
    /\ UNCHANGED <<meeting, stats, now, res, qs, io, cache, joins, chat, mom, peers>>

\* await User.findByIdAndUpdate(req.userId, { $inc: ... }) of a first join
JoinStats(r) ==
    /\ reqs[r].pc = "stats"
    /\ stats' = IncStats(stats, reqs[r].user, AttendedKeys)
    /\ reqs' = [reqs EXCEPT ![r].pc = "save"]
    /\ UNCHANGED <<meeting, now, res, base, qs, io, cache, joins, chat, mom, peers>>

\* leaveMeeting from findOne up to its save
BeginLeave(r, u) ==
    /\ Idle
    /\ CanBegin(r)
    /\ base' = IF Quiescent THEN meeting ELSE base
    /\ reqs' = [reqs EXCEPT ![r] =
                  IF meeting = NoMeeting THEN Answered("leave", u, "", 404)
                  ELSE IF JoinedIdxOf(meeting, u) = 0 THEN Answered("leave", u, "", 200)
                  ELSE [op |-> "leave", user |-> u, pw |-> "", pc |-> "save",
                        loaded |-> meeting,
                        local |-> LeaveMutate(meeting, JoinedIdxOf(meeting, u)), code |-> 0]]
    /\ UNCHANGED <<meeting, stats, now, res, qs, io, cache, joins, chat, mom, peers>>

\* await meeting.save() of joinMeeting or leaveMeeting, and the response
SaveStep(r) ==
    /\ reqs[r].pc = "save"
    /\ LET saved == Save(meeting, reqs[r].loaded, reqs[r].local) IN
       /\ meeting' = saved.doc
       /\ reqs' = [reqs EXCEPT ![r] = Answered(reqs[r].op, reqs[r].user, reqs[r].pw,
                                               IF saved.ok THEN 200 ELSE 500)]
    /\ UNCHANGED <<stats, now, res, base, qs, io, cache, joins, chat, mom, peers>>

\* the clients receive the responses of the settled requests
Collect ==
    /\ Settled
    /\ ~Quiescent
    /\ reqs' = [r \in ReqIds |-> NoReq]
    /\ base' = meeting
    /\ UNCHANGED <<meeting, stats, now, res, qs, io, cache, joins, chat, mom, peers>>

NextConc ==
    \/ \E u \in Creators, s \in SettingsInputs : Quiescent /\ CreateMeeting(u, s)
    \/ Receive
    \/ \E r \in ReqIds, u \in Users : BeginJoin(r, u, "null")
    \/ \E r \in ReqIds : JoinStats(r)
    \/ \E r \in ReqIds, u \in Users : BeginLeave(r, u)
    \/ \E r \in ReqIds : SaveStep(r)
    \/ Collect

SpecConc == Init /\ [][NextConc]_vars

\* ------------------------------------------------------- serial outcomes
\* what the persisted meeting shows of participants, roles, host and status
View(m) ==
    IF m = NoMeeting THEN m
    ELSE [participants |-> [i \in DOMAIN m.participants |->
                               [user |-> m.participants[i].user,
                                role |-> m.participants[i].role,
                                status |-> m.participants[i].status]],
          host |-> m.host,
          status |-> m.status]

\* the requests that were answered without a server error
Completed == {r \in ReqIds : reqs[r].pc = "done" /\ reqs[r].code # 500}

ServeSerially(m, r) ==
    IF reqs[r].op = "join"
    THEN JoinServed(m, reqs[r].user, reqs[r].pw, now).doc
    ELSE LeaveServed(m, reqs[r].user).doc

RECURSIVE SerialOutcomes(_, _)
\* the documents that serving the requests R one after the other, in any order, leaves
SerialOutcomes(m, R) ==
    IF R = {} THEN {m}
    ELSE UNION {SerialOutcomes(ServeSerially(m, r), R \ {r}) : r \in R}

\* ------------------------------------------------- QueueService at work
\* the time between two looks at the clock
ClockStep == 45 * MsPerMinute
\* scheduledFor of the meeting handed to scheduleReminders, in minutes from now
ScheduleOffsets == {3, 15, 20, 90}

\* queueService.initialize() at startup: the queues and workers are created, or
\* the attempt fails and the service stays on its fallback
QueueInitialize(ok) ==
    /\ Idle
    /\ qs.phase = "starting"
    /\ qs' = [qs EXCEPT !.phase = "running", !.initialized = ok]
    /\ UNCHANGED <<meeting, stats, now, res, reqs, base, io, cache, joins, chat, mom, peers>>

\* queueService.scheduleReminders(meeting, user) for the scheduled meeting,
\* called once for a meeting
ScheduleRemindersCall(offset) ==
    /\ Idle
    /\ meeting # NoMeeting
    /\ meeting.status = "scheduled"
    /\ ~qs.scheduled
    /\ LET sf == now + offset * MsPerMinute
           due == DueIntervals(sf, now)
       IN IF QueuesClosed(qs) /\ due # {}
          THEN /\ qs' = [qs EXCEPT !.scheduled = TRUE]
               /\ res' = Respond("scheduleReminders", 0, 0, "rejected")
          ELSE /\ qs' = [ScheduleReminders(qs, sf, now) EXCEPT !.scheduled = TRUE]
               /\ res' = Respond("scheduleReminders", 0, 0,
                                 IF due = {} THEN "nothing due"
                                 ELSE IF qs.initialized THEN "queued" ELSE "timer")
    /\ UNCHANGED <<meeting, stats, now, reqs, base, io, cache, joins, chat, mom, peers>>

\* queueService.cancelReminders(meetingId)
CancelRemindersCall ==
    /\ Idle
    /\ qs' = CancelReminders(qs)
    /\ res' = Respond("cancelReminders", 0, 0, "returned")
    /\ UNCHANGED <<meeting, stats, now, reqs, base, io, cache, joins, chat, mom, peers>>

\* queueService.addEmailJob(type, data)
AddEmailJobCall(mail) ==
    /\ Idle
    /\ qs' = AddEmailJob(qs, mail)
    /\ res' = Respond("addEmailJob", 0, 0, EmailOutcome(qs))
    /\ UNCHANGED <<meeting, stats, now, reqs, base, io, cache, joins, chat, mom, peers>>

\* queueService.addMomGenerationJob(meetingId, transcripts)
AddMomGenerationJob ==
    /\ Idle
    /\ qs.momGeneration < MaxJobs
    /\ qs' = IF BackgroundOutcome(qs) = "queued" THEN [qs EXCEPT !.momGeneration = @ + 1] ELSE qs
    /\ res' = Respond("addMomGenerationJob", 0, 0, BackgroundOutcome(qs))
    /\ UNCHANGED <<meeting, stats, now, reqs, base, io, cache, joins, chat, mom, peers>>

\* queueService.addRecordingJob(meetingId, fileName, filePath)
AddRecordingJob ==
    /\ Idle
    /\ qs.recording < MaxJobs
    /\ qs' = IF BackgroundOutcome(qs) = "queued" THEN [qs EXCEPT !.recording = @ + 1] ELSE qs
    /\ res' = Respond("addRecordingJob", 0, 0, BackgroundOutcome(qs))
    /\ UNCHANGED <<meeting, stats, now, reqs, base, io, cache, joins, chat, mom, peers>>

WorkersRunning == qs.initialized /\ qs.phase = "running"

\* the reminder worker takes a job whose delay has passed and loads the meeting:
\* a cancelled or missing meeting completes the job without a mail
ReminderWorkerFetch(m) ==
    /\ Idle
    /\ WorkersRunning
    /\ qs.reminder[m].state = "delayed"
    /\ now >= qs.reminder[m].at
    /\ qs' = IF meeting = NoMeeting \/ meeting.status = "cancelled"
             THEN [qs EXCEPT !.reminder[m] = NoJob]
             ELSE [qs EXCEPT !.reminder[m].state = "active"]
    /\ UNCHANGED <<meeting, stats, now, res, reqs, base, io, cache, joins, chat, mom, peers>>

\* the reminder worker, after its loads: await this.addEmailJob('meeting-reminder', ...),
\* and the completed job is removed
ReminderWorkerEnqueue(m) ==
    /\ Idle
    /\ qs.reminder[m].state = "active"
    /\ qs' = AddEmailJob([qs EXCEPT !.reminder[m] = NoJob], ReminderMail(m))
    /\ UNCHANGED <<meeting, stats, now, res, reqs, base, io, cache, joins, chat, mom, peers>>

\* the email worker processes a job: processReminderEmail / processMeetingMinutesEmail
EmailWorker(mail) ==
    /\ Idle
    /\ WorkersRunning
    /\ mail \in qs.email
    /\ qs' = [qs EXCEPT !.email = @ \ {mail}, !.sent = @ \cup {mail}]
    /\ UNCHANGED <<meeting, stats, now, res, reqs, base, io, cache, joins, chat, mom, peers>>

\* a setTimeout callback of the fallback runs: addEmailJob('meeting-reminder', ...)
TimerFires(tm) ==
    /\ Idle
    /\ tm \in qs.timers
    /\ now >= tm.at
    /\ qs' = AddEmailJob([qs EXCEPT !.timers = @ \ {tm}], ReminderMail(tm.minutes))
    /\ UNCHANGED <<meeting, stats, now, res, reqs, base, io, cache, joins, chat, mom, peers>>

\* the MOM generation worker: throws without the meeting or when the LLM call
\* fails, else marks the minutes record (if there is one) completed with what
\* the LLM returned and queues the minutes mail of the attendees
MomGenerationWorker(reply) ==
    /\ Idle
    /\ WorkersRunning
    /\ qs.momGeneration > 0
    /\ LET ai == GenerateMeetingMinutes(reply)
           taken == [qs EXCEPT !.momGeneration = @ - 1]
       IN IF meeting = NoMeeting \/ ai.threw
          THEN qs' = taken /\ mom' = mom
          ELSE /\ qs' = AddEmailJob(taken, MinutesMail)
               /\ mom' = IF mom.record = NoRecord THEN mom
                         ELSE [mom EXCEPT !.record.status = "completed",
                                          !.record.summary = ai.summary]
    /\ UNCHANGED <<meeting, stats, now, res, reqs, base, io, cache, joins, chat, peers>>

\* the recording worker processes a job
RecordingWorker ==
    /\ Idle
    /\ WorkersRunning
    /\ qs.recording > 0
    /\ qs' = [qs EXCEPT !.recording = @ - 1]
    /\ UNCHANGED <<meeting, stats, now, res, reqs, base, io, cache, joins, chat, mom, peers>>

\* queues.<queue>.add(...) of a job that is followed through its attempts
AddJob(queue, type) ==
    /\ Idle
    /\ WorkersRunning
    /\ qs.job.state \in {"none", "completed", "failed"}
    /\ qs' = [qs EXCEPT !.job = WaitingTask(queue, type)]
    /\ UNCHANGED <<meeting, stats, now, res, reqs, base, io, cache, joins, chat, mom, peers>>

\* the worker of the queue runs its handler on the waiting job
ProcessJob(fault) ==
    /\ Idle
    /\ WorkersRunning
    /\ qs.job.state = "waiting"
    /\ fault \in Faults(qs.job.queue)
    /\ qs' = [qs EXCEPT !.job = Attempt(qs.job, fault),
                        !.sent = IF qs.job.queue = "email" /\ fault = "none"
                                 THEN @ \cup {[type |-> qs.job.type, minutes |-> 0]}
                                 ELSE @]
    /\ UNCHANGED <<meeting, stats, now, res, reqs, base, io, cache, joins, chat, mom, peers>>

\* SIGTERM: queueService.shutdown() starts closing the workers
ShutdownBegin ==
    /\ Idle
    /\ qs.phase = "running"
    /\ qs' = [qs EXCEPT !.phase = "closing"]
    /\ UNCHANGED <<meeting, stats, now, res, reqs, base, io, cache, joins, chat, mom, peers>>

\* worker.close() has waited for the jobs in progress; the queues are closed
ShutdownEnd ==
    /\ Idle
    /\ qs.phase = "closing"
    /\ \A m \in Intervals : qs.reminder[m].state # "active"
    /\ qs' = [qs EXCEPT !.phase = "closed"]
    /\ UNCHANGED <<meeting, stats, now, res, reqs, base, io, cache, joins, chat, mom, peers>>

\* time passes
Elapse ==
    /\ Idle
    /\ now < MaxClockSteps * ClockStep
    /\ now' = now + ClockStep
    /\ UNCHANGED <<meeting, stats, res, reqs, base, qs, io, cache, joins, chat, mom, peers>>

NextQueue ==
    \/ \E u \in Creators : CreateMeeting(u, EmptySettings)
    \/ \E u \in Creators : JoinMeeting(u, "null")
    \/ \E u \in Creators : EndMeeting(u)
    \/ \E u \in Users : CancelMeeting(u)
    \/ Receive
    \/ \E ok \in BOOLEAN : QueueInitialize(ok)
    \/ \E offset \in ScheduleOffsets : ScheduleRemindersCall(offset)
    \/ CancelRemindersCall
    \/ \E m \in Intervals : ReminderWorkerFetch(m)
    \/ \E m \in Intervals : ReminderWorkerEnqueue(m)
    \/ \E mail \in qs.email : EmailWorker(mail)
    \/ \E tm \in qs.timers : TimerFires(tm)
    \/ Elapse

\* the reminders of a meeting: scheduled, worked off, cancelled
SpecQueue == Init /\ [][NextQueue]_vars

NextEnqueue ==
    \/ \E u \in Creators : CreateMeeting(u, EmptySettings)
    \/ Receive
    \/ \E ok \in BOOLEAN : QueueInitialize(ok)
    \/ \E offset \in ScheduleOffsets : ScheduleRemindersCall(offset)
    \/ AddEmailJobCall(MinutesMail)
    \/ AddMomGenerationJob
    \/ AddRecordingJob
    \/ \E m \in Intervals : ReminderWorkerFetch(m)
    \/ \E m \in Intervals : ReminderWorkerEnqueue(m)
    \/ \E mail \in qs.email : EmailWorker(mail)
    \/ \E tm \in qs.timers : TimerFires(tm)
    \/ \E reply \in LlmReplies : MomGenerationWorker(reply)
    \/ RecordingWorker
    \/ ShutdownBegin
    \/ ShutdownEnd
    \/ Elapse

\* the enqueue calls of the service, from startup to shutdown
SpecEnqueue == Init /\ [][NextEnqueue]_vars

NextRetry ==
    \/ \E ok \in BOOLEAN : QueueInitialize(ok)
    \/ \E queue \in QueueNames : \E type \in JobTypes(queue) : AddJob(queue, type)
    \/ \E fault \in {"none", "transport", "error"} : ProcessJob(fault)
    \/ ShutdownBegin
    \/ Elapse

\* the jobs of the four queues through their attempts
SpecRetry == Init /\ [][NextRetry]_vars

\* ------------------------------------------------ socket.io server at work
\* the last handler has returned and the clients have received what it emitted
Delivered == io.in = NoEvent

\* io.on('connection') of a client whose token verifies as user u.  The handlers
\* compare user ids for equality alone: the k-th connection is by one of the
\* first k users.
Connect(u) ==
    /\ Delivered
    /\ io.nextId \in SocketIds
    /\ u <= io.nextId - NumUsers
    /\ io' = [io EXCEPT !.sockets = Append(@, Socket(io.nextId, u)), !.nextId = @ + 1]
    /\ UNCHANGED <<meeting, stats, now, res, reqs, base, qs, cache, joins, chat, mom, peers>>

\* socket.on('join-meeting'): user-joined to the others of the room, and
\* existing-participants to the socket itself when there are others
JoinRoom(i) ==
    /\ Delivered
    /\ i \in DOMAIN io.sockets
    /\ LET s == io.sockets[i]
           others == RoomOthers(io, i)
       IN io' = [io EXCEPT !.sockets[i].inRoom = TRUE,
                           !.in = Inbound("join-meeting", i, NoTo, 0),
                           !.out = {Delivery(io.sockets[j].id, "user-joined", Sender(s), NoTo) : j \in others}
                                   \cup {Delivery(s.id, "existing-participants", Sender(s), NoTo) : j \in others}]
    /\ UNCHANGED <<meeting, stats, now, res, reqs, base, qs, cache, joins, chat, mom, peers>>

\* socket.on('offer' | 'answer' | 'ice-candidate') of socket i with payload { to, from }
Signal(i, event, to, from) ==
    /\ Delivered
    /\ i \in DOMAIN io.sockets
    /\ io' = [io EXCEPT !.in = Inbound(event, i, to, from),
                        !.out = RouteSignal(io, i, event, to, from)]
    /\ UNCHANGED <<meeting, stats, now, res, reqs, base, qs, cache, joins, chat, mom, peers>>

\* socket.on('disconnect'): user-left to the others of the socket's room
Disconnect(i) ==
    /\ Delivered
    /\ i \in DOMAIN io.sockets
    /\ LET s == io.sockets[i]
           rest == SubSeq(io.sockets, 1, i - 1) \o SubSeq(io.sockets, i + 1, Len(io.sockets))
       IN io' = [io EXCEPT !.sockets = rest,
                           !.in = Inbound("disconnect", 0, NoTo, IF s.inRoom THEN Sender(s) ELSE 0),
                           !.out = IF s.inRoom
                                   THEN {Delivery(io.sockets[j].id, "user-left", Sender(s), NoTo) : j \in RoomOthers(io, i)}
                                   ELSE {}]
    /\ UNCHANGED <<meeting, stats, now, res, reqs, base, qs, cache, joins, chat, mom, peers>>

\* the emitted events reach their sockets
Deliver ==
    /\ io.in # NoEvent \/ \E id \in SocketIds : joins[id].pc = "done"
    /\ io' = [io EXCEPT !.in = NoEvent, !.out = {}]
    /\ joins' = [id \in SocketIds |-> IF joins[id].pc = "done" THEN NoJoin ELSE joins[id]]
    /\ UNCHANGED <<meeting, stats, now, res, reqs, base, qs, cache, chat, mom, peers>>

\* data.to and data.from of a signaling payload
ToInputs == {NoTo} \cup Users \cup SocketIds
FromInputs == {0} \cup Creators

NextSignal ==
    \/ \E u \in Users : Connect(u)
    \/ \E i \in 1..MaxSockets : JoinRoom(i)
    \/ \E i \in 1..MaxSockets, event \in SignalEvents, to \in ToInputs, from \in FromInputs :
          Signal(i, event, to, from)
    \/ \E i \in 1..MaxSockets : Disconnect(i)
    \/ Deliver

SpecSignal == Init /\ [][NextSignal]_vars

\* ------------------------------------------------- cache service at work
\* cacheService.initialize() after the database connected: getRedisClient()
\* hands out the one ioredis client, which connects in the background
CacheInitialize ==
    /\ cache.phase = "starting"
    /\ cache' = [cache EXCEPT !.phase = "running", !.client = TRUE]
    /\ UNCHANGED <<meeting, stats, now, res, reqs, base, qs, io, joins, chat, mom, peers>>

\* checkRateLimit(key, RateLimit, RateWindow) is called: without a client it
\* returns at once, with one it sends INCR
CheckRateLimit(r) ==
    /\ cache.calls[r].pc = "idle"
    /\ \A q \in RateCalls : q < r => cache.calls[q].pc # "idle"
    /\ cache' = [cache EXCEPT !.calls[r] =
                    IF cache.client THEN [NoCall EXCEPT !.pc = "incr"]
                    ELSE [NoCall EXCEPT !.pc = "done"]]
    /\ UNCHANGED <<meeting, stats, now, res, reqs, base, qs, io, joins, chat, mom, peers>>

\* a cache call threw: the catch returns { allowed: true, remaining: limit }
RateCaught(c) == [c EXCEPT !.pc = "done", !.threw = TRUE, !.result = RateFailOpen(RateLimit)]

\* const current = await this.client.incr(key)
RateIncr(r, ok) ==
    /\ cache.calls[r].pc = "incr"
    /\ cache.up
    /\ IF ok
       THEN LET k == Incr(cache.key, now)
                w == Counted(cache.window, now)
            IN cache' = [cache EXCEPT
                   !.key = k,
                   !.window = w,
                   !.calls[r] = [@ EXCEPT !.pc = IF k.count = 1 THEN "expire" ELSE "ttl",
                                          !.current = k.count,
                                          !.counted = TRUE,
                                          !.expect = w.n <= RateLimit]]
       ELSE cache' = [cache EXCEPT !.key = Live(cache.key, now), !.calls[r] = RateCaught(@)]
    /\ UNCHANGED <<meeting, stats, now, res, reqs, base, qs, io, joins, chat, mom, peers>>

\* if (current === 1) await this.client.expire(key, windowSeconds)
RateExpire(r, ok) ==
    /\ cache.calls[r].pc = "expire"
    /\ cache.up
    /\ IF ok
       THEN cache' = [cache EXCEPT !.key = Expire(cache.key, now, RateWindow),
                                   !.calls[r].pc = "ttl"]
       ELSE cache' = [cache EXCEPT !.key = Live(cache.key, now), !.calls[r] = RateCaught(@)]
    /\ UNCHANGED <<meeting, stats, now, res, reqs, base, qs, io, joins, chat, mom, peers>>

\* const ttl = await this.client.ttl(key), and the return
RateTtl(r, ok) ==
    /\ cache.calls[r].pc = "ttl"
    /\ cache.up
    /\ LET c == cache.calls[r] IN
       cache' = [cache EXCEPT
           !.key = Live(cache.key, now),
           !.calls[r] = IF ok
                        THEN [c EXCEPT !.pc = "done", !.result = RateResult(c.current, RateLimit)]
                        ELSE RateCaught(c)]
    /\ UNCHANGED <<meeting, stats, now, res, reqs, base, qs, io, joins, chat, mom, peers>>

\* a second passes (now counts seconds here)
Second ==
    /\ now < MaxSeconds
    /\ now' = now + 1
    /\ UNCHANGED <<meeting, stats, res, reqs, base, qs, io, cache, joins, chat, mom, peers>>

NextRate ==
    \/ CacheInitialize
    \/ \E r \in RateCalls : CheckRateLimit(r)
    \/ \E r \in RateCalls, ok \in BOOLEAN : RateIncr(r, ok)
    \/ \E r \in RateCalls, ok \in BOOLEAN : RateExpire(r, ok)
    \/ \E r \in RateCalls, ok \in BOOLEAN : RateTtl(r, ok)
    \/ Second

SpecRate == Init /\ [][NextRate]_vars

\* ---------------------------------------------------- minutes controller
\* POST /api/meeting-minutes/:meetingId/generate by user u; the LLM answers
\* with `reply`, and the mailer is configured or not
GenerateMinutes(u, reply, mailer) ==
    /\ Idle
    /\ LET refusal == MinutesRefusal(meeting, mom.record, u)
           out == MinutesOutcome(mom.record, reply, mailer)
       IN IF refusal # NoRes
          THEN /\ res' = refusal
               /\ mom' = [mom EXCEPT !.run = NoRun]
          ELSE /\ mom' = [mom EXCEPT !.record = out.record, !.run = out.run]
               /\ res' = Respond("generate", u, out.code,
                                 IF out.code = 200
                                 THEN "Meeting minutes generated and sent successfully"
                                 ELSE "Failed to generate AI meeting minutes")
    /\ UNCHANGED <<meeting, stats, now, reqs, base, qs, io, cache, joins, chat, peers>>

NextMinutes ==
    \/ \E u \in Creators : CreateMeeting(u, EmptySettings)
    \/ \E u \in Users, pw \in PasswordInputs : JoinMeeting(u, pw)
    \/ \E u \in Users : LeaveMeeting(u)
    \/ \E u \in Users : EndMeeting(u)
    \/ \E u \in Users, reply \in LlmReplies, mailer \in BOOLEAN : GenerateMinutes(u, reply, mailer)
    \/ Receive

SpecMinutes == Init /\ [][NextMinutes]_vars

\* ----------------------------------------- generate requests step by step
\* generateMinutes from Meeting.findOne to its next await: 404, 403, or on to
\* the lookup of the minutes
BeginGenerate(r, u) ==
    /\ mom.gens[r].pc = "idle"
    /\ mom' = IF MinutesRefusal(meeting, NoRecord, u) # NoRes
              THEN mom
              ELSE [mom EXCEPT !.gens[r] = [pc |-> "find", user |-> u, doc |-> 0]]
    /\ res' = MinutesRefusal(meeting, NoRecord, u)
    /\ Idle
    /\ UNCHANGED <<meeting, stats, now, reqs, base, qs, io, cache, joins, chat, peers>>

\* await MeetingMinutes.findOne({ meetingId }): 400 for a completed record,
\* else the request goes on with the record found, or with none
FindMinutes(r) ==
    /\ mom.gens[r].pc = "find"
    /\ mom' = IF mom.record.status = "completed"
              THEN [mom EXCEPT !.gens[r] = NoGen]
              ELSE [mom EXCEPT !.gens[r].pc = "write",
                               !.gens[r].doc = IF mom.record = NoRecord THEN 0 ELSE 1]
    /\ UNCHANGED <<meeting, stats, now, res, reqs, base, qs, io, cache, joins, chat, peers>>

\* findByIdAndUpdate(existingMinutes._id, minutesData) of the record found, or
\* new MeetingMinutes(minutesData).save() when none was
WriteMinutes(r) ==
    /\ mom.gens[r].pc = "write"
    /\ LET g == mom.gens[r]
           processing == [NoRecord EXCEPT !.status = "processing"]
           inserted == InsertRecord(mom, processing)
       IN mom' = IF g.doc # 0
                 THEN [SaveRecord(mom, g.doc, [HeldRecord(mom, g.doc) EXCEPT !.status = "processing"])
                          EXCEPT !.gens[r].pc = "llm"]
                 ELSE [inserted.minutes EXCEPT !.gens[r].pc = "llm", !.gens[r].doc = inserted.doc]
    /\ UNCHANGED <<meeting, stats, now, res, reqs, base, qs, io, cache, joins, chat, peers>>

\* the try block: the LLM call, the saves of the request's own record, the
\* mails, and the response
FinishGenerate(r, reply, mailer) ==
    /\ mom.gens[r].pc = "llm"
    /\ LET g == mom.gens[r]
           out == MinutesOutcome(HeldRecord(mom, g.doc), reply, mailer)
       IN mom' = [SaveRecord(mom, g.doc, out.record) EXCEPT !.run = out.run, !.gens[r] = NoGen]
    /\ UNCHANGED <<meeting, stats, now, res, reqs, base, qs, io, cache, joins, chat, peers>>

NextGenerate ==
    \/ \E u \in Creators : CreateMeeting(u, EmptySettings)
    \/ Receive
    \/ \E r \in ReqIds, u \in Users : BeginGenerate(r, u)
    \/ \E r \in ReqIds : FindMinutes(r)
    \/ \E r \in ReqIds : WriteMinutes(r)
    \/ \E r \in ReqIds, reply \in LlmReplies, mailer \in BOOLEAN : FinishGenerate(r, reply, mailer)

SpecGenerate == Init /\ [][NextGenerate]_vars

\* ------------------------------------------------------------ chat at work
\* POST /api/chat/message by user u with a text of its own; the save succeeds
\* or the database fails
PostMessage(u, db) ==
    /\ Idle
    /\ chat.sent < MaxChats
    /\ LET message == ChatMessage(u, chat.sent + 1) IN
       IF meeting = NoMeeting
       THEN /\ res' = Respond("chat", u, 404, "Meeting not found")
            /\ chat' = [chat EXCEPT !.sent = @ + 1]
       ELSE IF ~db
            THEN /\ res' = Respond("chat", u, 500, "Internal server error")
                 /\ chat' = [chat EXCEPT !.sent = @ + 1]
            ELSE LET log == Append(chat.log, message) IN
                 /\ res' = Respond("chat", u, 200, "Message sent successfully")
                 /\ chat' = [chat EXCEPT !.log = log, !.chatMessages = chat.chatMessages + 1,
                                         !.sent = chat.sent + 1,
                                         !.cast = [message |-> LastMessage(log), sockets |-> Room(io)]]
    /\ UNCHANGED <<meeting, stats, now, reqs, base, qs, io, cache, joins, mom, peers>>

\* socket.on('chat-message') of socket i with { meetingId, message }; the
\* database calls succeed or one of them throws
ChatMessageEvent(i, db) ==
    /\ Delivered
    /\ i \in DOMAIN io.sockets
    /\ chat.sent < MaxChats
    /\ LET message == ChatMessage(io.sockets[i].userId, chat.sent + 1) IN
       IF ~db
       THEN chat' = [chat EXCEPT !.sent = @ + 1]
       ELSE chat' = [chat EXCEPT !.log = PushChat(meeting, chat.log, message),
                                 !.chatMessages = IncChat(meeting, chat.chatMessages),
                                 !.sent = chat.sent + 1,
                                 !.cast = [message |-> message, sockets |-> Room(io)]]
    /\ UNCHANGED <<meeting, stats, now, res, reqs, base, qs, io, cache, joins, mom, peers>>

NextChat ==
    \/ \E u \in Creators, s \in ChatSettingsInputs : CreateMeeting(u, s)
    \/ Receive
    \/ \E u \in Users : Connect(u)
    \/ \E i \in 1..MaxSockets : JoinRoom(i)
    \/ Deliver
    \/ \E u \in Users, db \in BOOLEAN : PostMessage(u, db)
    \/ \E i \in 1..MaxSockets, db \in BOOLEAN : ChatMessageEvent(i, db)

SpecChat == Init /\ [][NextChat]_vars

\* ------------------------------------------- chat requests step by step
\* POST /api/chat/message from Meeting.findOne up to its save: 404 without a
\* meeting, else the message is pushed and chatMessages incremented on the
\* loaded copy
BeginPost(r, u) ==
    /\ chat.sent < MaxChats
    /\ chat.posts[r].pc = "idle"
    /\ chat' = IF meeting = NoMeeting
               THEN [chat EXCEPT !.sent = @ + 1]
               ELSE [chat EXCEPT !.sent = @ + 1,
                                 !.posts[r] = [pc |-> "save", user |-> u, text |-> chat.sent + 1,
                                               loaded |-> chat.chatMessages]]
    /\ UNCHANGED <<meeting, stats, now, res, reqs, base, qs, io, cache, joins, mom, peers>>

\* await meeting.save(): the pushed message goes as a $push, the counter as a
\* $set of the value computed from the loaded copy; or the database fails
SavePost(r, db) ==
    /\ chat.posts[r].pc = "save"
    /\ LET post == chat.posts[r] IN
       chat' = IF ~db
               THEN [chat EXCEPT !.posts[r] = NoPost]
               ELSE [chat EXCEPT !.log = Append(@, ChatMessage(post.user, post.text)),
                                 !.chatMessages = post.loaded + 1,
                                 !.posts[r].pc = "read"]
    /\ UNCHANGED <<meeting, stats, now, res, reqs, base, qs, io, cache, joins, mom, peers>>

\* await Meeting.findOne(...).populate(...): the last message of the document
\* read again is answered and broadcast to the room
AnswerPost(r) ==
    /\ chat.posts[r].pc = "read"
    /\ Delivered
    /\ chat' = [chat EXCEPT !.cast = [message |-> LastMessage(chat.log), sockets |-> Room(io)],
                            !.posts[r] = NoPost]
    /\ UNCHANGED <<meeting, stats, now, res, reqs, base, qs, io, cache, joins, mom, peers>>

NextPost ==
    \/ \E u \in Creators : CreateMeeting(u, EmptySettings)
    \/ Receive
    \/ \E u \in Users : Connect(u)
    \/ \E i \in 1..MaxSockets : JoinRoom(i)
    \/ Deliver
    \/ \E r \in ReqIds, u \in Users : BeginPost(r, u)
    \/ \E r \in ReqIds, db \in BOOLEAN : SavePost(r, db)
    \/ \E r \in ReqIds : AnswerPost(r)
    \/ \E i \in 1..MaxSockets, db \in BOOLEAN : ChatMessageEvent(i, db)

SpecPost == Init /\ [][NextPost]_vars

\* ------------------------------------------------------- rooms at work
\* the Redis server becomes unreachable, or reachable again
RedisDown ==
    /\ cache.up
    /\ cache' = [cache EXCEPT !.up = FALSE]
    /\ UNCHANGED <<meeting, stats, now, res, reqs, base, qs, io, joins, chat, mom, peers>>

RedisUp ==
    /\ ~cache.up
    /\ cache' = [cache EXCEPT !.up = TRUE]
    /\ UNCHANGED <<meeting, stats, now, res, reqs, base, qs, io, joins, chat, mom, peers>>

\* no join-meeting handler is running
NoJoinActive == \A id \in SocketIds : joins[id].pc = "idle"

\* the clients have received what the handlers emitted
Received == Delivered /\ \A id \in SocketIds : joins[id].pc # "done"

\* socket.on('join-meeting') up to its first await: the socket is in the room,
\* socket.meetingId is set, addOnlineUser is called
JoinMeetingEvent(i) ==
    /\ Received
    /\ i \in DOMAIN io.sockets
    /\ joins[io.sockets[i].id].pc = "idle"
    /\ Cardinality({id \in SocketIds : joins[id].pc # "idle"}) < MaxJoins
    /\ io' = [io EXCEPT !.sockets[i].inRoom = TRUE]
    /\ joins' = [joins EXCEPT ![io.sockets[i].id] = [NoJoin EXCEPT !.pc = "cache", !.user = io.sockets[i].userId]]
    /\ UNCHANGED <<meeting, stats, now, res, reqs, base, qs, cache, chat, mom, peers>>

\* await cacheService.addOnlineUser(...) returns: at once without a client;
\* with one, when Redis has answered the command (ioredis keeps the command
\* of an unreachable server queued: maxRetriesPerRequest is null)
JoinCache(id, ok) ==
    /\ Received
    /\ joins[id].pc = "cache"
    /\ cache.client => cache.up
    /\ cache' = AddOnlineUser(cache, joins[id].user, ok).cache
    /\ joins' = [joins EXCEPT ![id].pc = "user"]
    /\ UNCHANGED <<meeting, stats, now, res, reqs, base, qs, io, chat, mom, peers>>

\* await User.findById(socket.userId) returns: user-joined to the rest of the
\* room, then the first socket of the room is looked up; the catch emits
\* user-joined when the lookup threw
JoinUser(id, db) ==
    /\ Received
    /\ joins[id].pc = "user"
    /\ LET next == NextInRoom(io, id, {}) IN
       joins' = [joins EXCEPT ![id] =
           IF ~db
           THEN [@ EXCEPT !.pc = "done", !.failed = TRUE, !.emitted = <<UserJoined(io, id)>>]
           ELSE IF next = 0
                THEN [@ EXCEPT !.pc = "done", !.emitted = <<UserJoined(io, id)>>]
                ELSE [@ EXCEPT !.pc = "loop", !.cur = next, !.emitted = <<UserJoined(io, id)>>]]
    /\ UNCHANGED <<meeting, stats, now, res, reqs, base, qs, io, cache, chat, mom, peers>>

\* await User.findById(existingSocket.userId) returns: the socket is pushed and
\* the next one looked up, or the list is emitted to the joining socket; the
\* catch emits user-joined when the lookup threw
JoinLoop(id, db) ==
    /\ Received
    /\ joins[id].pc = "loop"
    /\ LET j == joins[id]
           found == j.found \cup {j.cur}
           next == NextInRoom(io, id, found)
       IN joins' = [joins EXCEPT ![id] =
           IF ~db
           THEN [j EXCEPT !.pc = "done", !.cur = 0, !.failed = TRUE,
                          !.emitted = Append(j.emitted, UserJoined(io, id))]
           ELSE IF next = 0
                THEN [j EXCEPT !.pc = "done", !.cur = 0, !.found = found,
                               !.emitted = Append(j.emitted, ExistingParticipants(io, id, found))]
                ELSE [j EXCEPT !.cur = next, !.found = found]]
    /\ UNCHANGED <<meeting, stats, now, res, reqs, base, qs, io, cache, chat, mom, peers>>

\* socket.on('mute-participant' | 'remove-participant') of socket i
HostControl(i, event, participantId) ==
    /\ Delivered
    /\ i \in DOMAIN io.sockets
    /\ io' = [io EXCEPT !.in = Inbound(event, i, participantId, 0),
                        !.out = RouteHostControl(io, i, event, participantId)]
    /\ UNCHANGED <<meeting, stats, now, res, reqs, base, qs, cache, joins, chat, mom, peers>>

\* data.participantId of a host control
ParticipantIds == Users \cup SocketIds \cup {RoomId}

NextRoom ==
    \/ CacheInitialize
    \/ RedisDown
    \/ RedisUp
    \/ \E u \in Users : Connect(u)
    \/ \E i \in 1..MaxSockets : NoJoinActive /\ JoinMeetingEvent(i)
    \/ \E id \in SocketIds, ok \in BOOLEAN : JoinCache(id, ok)
    \/ \E id \in SocketIds, db \in BOOLEAN : JoinUser(id, db)
    \/ \E id \in SocketIds, db \in BOOLEAN : JoinLoop(id, db)
    \/ \E i \in 1..MaxSockets : Disconnect(i)
    \/ Deliver

SpecRoom == Init /\ [][NextRoom]_vars

\* ------------------------------------------------ rooms by name at work
\* socket.on('join-meeting') of socket i for meeting m: socket.join(m),
\* socket.meetingId = m, and the two emissions
JoinMeetingRoom(i, m) ==
    /\ Delivered
    /\ i \in DOMAIN io.sockets
    /\ LET joined == [io EXCEPT !.sockets[i].rooms = @ \cup {m}, !.sockets[i].meetingId = m]
       IN io' = [joined EXCEPT !.in = Inbound("join-meeting", i, m, 0),
                               !.out = RouteJoin(joined, i, m)]
    /\ UNCHANGED <<meeting, stats, now, res, reqs, base, qs, cache, joins, chat, mom, peers>>

\* socketService.leaveMeeting(): the client emits leave-meeting, for which the
\* server registers no handler
LeaveMeetingEvent(i) ==
    /\ Delivered
    /\ i \in DOMAIN io.sockets
    /\ io.sockets[i].meetingId # 0
    /\ io' = [io EXCEPT !.in = Inbound("leave-meeting", i, io.sockets[i].meetingId, 0),
                        !.out = {}]
    /\ UNCHANGED <<meeting, stats, now, res, reqs, base, qs, cache, joins, chat, mom, peers>>

\* a signaling or control event of socket i with data.meetingId and data.to
RoomEvent(i, event, m, to) ==
    /\ Delivered
    /\ i \in DOMAIN io.sockets
    /\ event \in SignalEvents \/ to = NoTo
    /\ io' = [io EXCEPT !.in = Inbound(event, i, to, 0),
                        !.out = RouteInRoom(io, i, event, m, to)]
    /\ UNCHANGED <<meeting, stats, now, res, reqs, base, qs, cache, joins, chat, mom, peers>>

NextRooms ==
    \/ \E u \in Users : Connect(u)
    \/ \E i \in 1..MaxSockets, m \in MeetingIds : JoinMeetingRoom(i, m)
    \/ \E i \in 1..MaxSockets : LeaveMeetingEvent(i)
    \/ \E i \in 1..MaxSockets, event \in SignalEvents \cup BroadcastEvents,
          m \in MeetingIds, to \in ToInputs : RoomEvent(i, event, m, to)
    \/ Deliver

SpecRooms == Init /\ [][NextRooms]_vars

\* ------------------------------------------------ joins that overlap
\* the sockets receive what the finished join-meeting handlers emitted
ReceiveJoined ==
    /\ \E id \in SocketIds : joins[id].pc = "done"
    /\ peers' = [peers EXCEPT !.listed =
                     @ \cup UNION {Listed(joins[id]) : id \in {x \in SocketIds : joins[x].pc = "done"}}]
    /\ joins' = [id \in SocketIds |-> IF joins[id].pc = "done" THEN NoJoin ELSE joins[id]]
    /\ io' = [io EXCEPT !.in = NoEvent, !.out = {}]
    /\ UNCHANGED <<meeting, stats, now, res, reqs, base, qs, cache, chat, mom>>

NextOverlap ==
    \/ \E u \in Users : Connect(u)
    \/ \E i \in 1..MaxSockets : JoinMeetingEvent(i)
    \/ \E id \in SocketIds, ok \in BOOLEAN : JoinCache(id, ok)
    \/ \E id \in SocketIds, db \in BOOLEAN : JoinUser(id, db)
    \/ \E id \in SocketIds, db \in BOOLEAN : JoinLoop(id, db)
    \/ ReceiveJoined

SpecOverlap == Init /\ [][NextOverlap]_vars

NextControl ==
    \/ \E u \in Creators : CreateMeeting(u, EmptySettings)
    \/ Receive
    \/ \E u \in Users : Connect(u)
    \/ \E i \in 1..MaxSockets : JoinRoom(i)
    \/ \E i \in 1..MaxSockets, event \in HostControlEvents, p \in ParticipantIds :
          HostControl(i, event, p)
    \/ \E i \in 1..MaxSockets : Disconnect(i)
    \/ Deliver

SpecControl == Init /\ [][NextControl]_vars

\* ------------------------------------------------------- clients at work
\* the emitted events reach their sockets and the listeners of the clients run
ClientDeliver ==
    /\ io.in # NoEvent
    /\ peers' = [peers EXCEPT !.outbox = @ \cup UNION {OnEvent(d) : d \in io.out}]
    /\ io' = [io EXCEPT !.in = NoEvent, !.out = {}]
    /\ UNCHANGED <<meeting, stats, now, res, reqs, base, qs, cache, joins, chat, mom>>

\* sendOffer / sendAnswer of a client: socket.emit(event, data) with from the
\* client's own user id, handled by the server's signaling handler
ClientSend(e) ==
    /\ Delivered
    /\ e \in peers.outbox
    /\ peers' = [peers EXCEPT !.outbox = @ \ {e}]
    /\ LET i == FirstIdx({k \in DOMAIN io.sockets : io.sockets[k].id = e.socket}) IN
       IF i = 0
       THEN io' = io
       ELSE io' = [io EXCEPT !.in = Inbound(e.event, i, e.to, io.sockets[i].userId),
                             !.out = RouteSignal(io, i, e.event, e.to, io.sockets[i].userId)]
    /\ UNCHANGED <<meeting, stats, now, res, reqs, base, qs, cache, joins, chat, mom>>

NextPeer ==
    \/ \E u \in Users : Connect(u)
    \/ \E i \in 1..MaxSockets : JoinRoom(i)
    \/ \E e \in peers.outbox : ClientSend(e)
    \/ \E i \in 1..MaxSockets : Disconnect(i)
    \/ ClientDeliver

SpecPeer == Init /\ [][NextPeer]_vars

\* ------------------------------------------------- duration of a meeting
\* req.body.scheduledFor of createMeeting: missing, or a time of the clock
ScheduledForInputs == {k * ClockStep : k \in 0..MaxClockSteps}

NextDuration ==
    \/ \E u \in Creators, sf \in ScheduledForInputs : CreateMeetingFor(u, sf, EmptySettings)
    \/ \E u \in Users : JoinMeeting(u, "null")
    \/ \E u \in Users : LeaveMeeting(u)
    \/ \E u \in Users : EndMeeting(u)
    \/ Receive
    \/ Elapse

SpecDuration == Init /\ [][NextDuration]_vars

\* ================================================================ claims
HostsJoined(m) ==
    {i \in DOMAIN m.participants :
        m.participants[i].role = "host" /\ m.participants[i].status = "joined"}

\* the user whose participant entry has role host
RoleHosts(m) == {m.participants[i].user : i \in {j \in DOMAIN m.participants : m.participants[j].role = "host"}}

\* C1: while a meeting is ongoing, exactly one participant has role host and
\* status joined, after any sequence of requests served one at a time.
C1_OneJoinedHost ==
    (meeting # NoMeeting /\ meeting.status = "ongoing")
        => Cardinality(HostsJoined(meeting)) = 1

\* an ongoing meeting whose host succeeded the creator, who has rejoined
C1_SuccessorHosts ==
    /\ meeting # NoMeeting
    /\ meeting.status = "ongoing"
    /\ meeting.host # meeting.participants[1].user
    /\ meeting.participants[1].status = "joined"

\* C2: the number of joined participants never exceeds settings.maxParticipants.
C2_WithinCapacity ==
    meeting # NoMeeting => JoinedCount(meeting) <= meeting.settings.maxParticipants

\* C3: once the concurrent join and leave requests are settled, the persisted
\* participants, roles, host and status are those of serving the completed
\* requests one after the other in some order.
C3_Linearizable ==
    (Settled /\ ~Quiescent) => View(meeting) \in {View(d) : d \in SerialOutcomes(base, Completed)}

\* C4: once a meeting is ended or cancelled, no request changes its status.
C4_TerminalStatus ==
    [][(meeting # NoMeeting /\ meeting.status \in {"ended", "cancelled"})
          => meeting'.status = meeting.status]_vars

\* C5: a join of a missing, ended or cancelled, password-protected (wrong
\* password) or full meeting answers with the error and changes neither the
\* meeting document nor the statistics of any user.
C5_RefusedJoinChangesNothing ==
    [][\A u \in Users, pw \in PasswordInputs :
          JoinMeeting(u, pw) =>
            LET expected ==
                  IF meeting = NoMeeting THEN <<404, "Meeting not found">>
                  ELSE IF meeting.status \in {"ended", "cancelled"}
                       THEN <<400, "Meeting is no longer available">>
                  ELSE IF meeting.settings.requirePassword /\ pw # meeting.password
                       THEN <<401, "Incorrect meeting password">>
                  ELSE IF JoinedCount(meeting) >= meeting.settings.maxParticipants
                       THEN <<400, "Meeting is full">>
                  ELSE <<200, "Joined meeting successfully">>
            IN /\ <<res'.code, res'.msg>> = expected
               /\ res'.code # 200 => (meeting' = meeting /\ stats' = stats)]_vars

\* a user without an entry was refused by a full, ongoing meeting
C5_FullMeetingRefused ==
    /\ res.op = "join"
    /\ res.code = 400
    /\ res.msg = "Meeting is full"
    /\ meeting.status = "ongoing"
    /\ ExistingIdx(meeting, res.user) = 0

\* the user has an entry with status joined that a joinMeeting added
JoinedByJoin(m, u) ==
    /\ m # NoMeeting
    /\ JoinedIdxOf(m, u) > 1

\* the join would pass the status and password checks
Admissible(m, pw) ==
    /\ m.status \notin {"ended", "cancelled"}
    /\ ~(m.settings.requirePassword /\ pw # m.password)

\* C6 as stated: a second join by an already-joined user succeeds and leaves the
\* participant list and the statistics as they were, also when the meeting is full.
C6_RejoinSucceeds ==
    [][\A u \in Users, pw \in PasswordInputs :
          (JoinMeeting(u, pw) /\ JoinedByJoin(meeting, u) /\ Admissible(meeting, pw))
            => /\ res'.code = 200
               /\ meeting'.participants = meeting.participants
               /\ stats' = stats]_vars

\* C6 amended: a second join by an already-joined user leaves the participant
\* list and the statistics as they were; it succeeds while fewer than
\* maxParticipants are joined and is refused as full otherwise.
C6_RejoinKeepsState ==
    [][\A u \in Users, pw \in PasswordInputs :
          (JoinMeeting(u, pw) /\ JoinedByJoin(meeting, u) /\ Admissible(meeting, pw))
            => /\ meeting'.participants = meeting.participants
               /\ stats' = stats
               /\ IF JoinedCount(meeting) < meeting.settings.maxParticipants
                  THEN res'.code = 200
                  ELSE res'.code = 400 /\ res'.msg = "Meeting is full" /\ meeting' = meeting]_vars

\* an already-joined user joined again and was refused by the full meeting
C6_JoinedUserRefused ==
    /\ res.op = "join"
    /\ res.code = 400
    /\ res.msg = "Meeting is full"
    /\ meeting.status = "ongoing"
    /\ JoinedByJoin(meeting, res.user)
    /\ JoinedCount(meeting) = meeting.settings.maxParticipants

\* C7: statistics.meetingsAttended of a user is incremented exactly once over all
\* the joins of the user on the meeting, concurrent joins included.
C7_AttendedOnce ==
    \A u \in Users :
       /\ stats[u].meetingsAttended <= 1
       /\ Settled =>
            (stats[u].meetingsAttended = 1
               <=> (meeting # NoMeeting
                    /\ \E i \in DOMAIN meeting.participants :
                          i > 1 /\ meeting.participants[i].user = u))

\* C8: when the host leaves and others remain joined, the joined co-host that
\* joined earliest (by joinedAt), or without a joined co-host the joined
\* participant that joined earliest, becomes host; the old host is a participant
\* that has left, meeting.host is the new host and the status is unchanged.
C8_EarliestJoinedSucceeds ==
    [][\A u \in Users :
          (/\ LeaveMeeting(u)
           /\ meeting # NoMeeting
           /\ JoinedIdxOf(meeting, u) # 0
           /\ meeting.participants[JoinedIdxOf(meeting, u)].role = "host"
           /\ JoinedIdx(meeting) \ {JoinedIdxOf(meeting, u)} # {})
            => LET i == JoinedIdxOf(meeting, u)
                   others == JoinedIdx(meeting) \ {i}
                   coHosts == {j \in others : meeting.participants[j].role = "co-host"}
                   candidates == IF coHosts # {} THEN coHosts ELSE others
               IN \E j \in candidates :
                     /\ \A k \in candidates :
                           meeting.participants[j].joinedAt <= meeting.participants[k].joinedAt
                     /\ meeting'.participants[j].role = "host"
                     /\ meeting'.host = meeting.participants[j].user
                     /\ meeting'.participants[i].role = "participant"
                     /\ meeting'.participants[i].status = "left"
                     /\ meeting'.status = meeting.status]_vars

\* C9: endMeeting succeeds only for the current host (the user whose entry has
\* role host): it ends the meeting for the host, and answers 403 and changes
\* nothing for anyone else, the former host included.
C9_OnlyHostEnds ==
    [][\A u \in Users :
          (EndMeeting(u) /\ meeting # NoMeeting)
            => IF u \in RoleHosts(meeting)
               THEN res'.code = 200 /\ meeting'.status = "ended"
               ELSE res'.code = 403 /\ meeting' = meeting]_vars

\* the creator, who left and was succeeded as host, was refused the end
C9_FormerHostRefused ==
    /\ res.op = "end"
    /\ res.code = 403
    /\ res.user = meeting.participants[1].user
    /\ meeting.participants[1].status = "left"
    /\ meeting.host # res.user
    /\ meeting.status = "ongoing"

\* C10: an ongoing meeting has a joined participant, and the leave of the last
\* joined participant ends the meeting.
C10_OngoingHasJoined ==
    [][/\ (meeting' # NoMeeting /\ meeting'.status = "ongoing") => JoinedCount(meeting') >= 1
       /\ \A u \in Users :
             (/\ LeaveMeeting(u)
              /\ meeting # NoMeeting
              /\ JoinedIdxOf(meeting, u) # 0
              /\ JoinedCount(meeting) = 1)
               => meeting'.status = "ended"]_vars

\* the last joined participant of a meeting that others had joined has left
C10_LastLeaverEnded ==
    /\ res.op = "leave"
    /\ res.code = 200
    /\ meeting.status = "ended"
    /\ JoinedCount(meeting) = 0
    /\ Len(meeting.participants) >= 2
    /\ \E i \in DOMAIN meeting.participants :
          /\ meeting.participants[i].user = res.user
          /\ meeting.participants[i].role = "host"
          /\ i > 1

\* C11: cancelMeeting on a meeting that is not scheduled fails (400 "Can only
\* cancel scheduled meetings" for the host, 403 for anyone else) and leaves the
\* meeting and the reminders as they were.
C11_CancelNeedsScheduled ==
    [][\A u \in Users :
          (CancelMeeting(u) /\ meeting # NoMeeting /\ meeting.status # "scheduled")
            => /\ IF u = meeting.host
                  THEN res'.code = 400 /\ res'.msg = "Can only cancel scheduled meetings"
                  ELSE res'.code = 403
               /\ meeting' = meeting
               /\ qs' = qs]_vars

\* the host was refused the cancel of an ongoing meeting that has reminders waiting
C11_OngoingCancelRefused ==
    /\ res.op = "cancel"
    /\ res.code = 400
    /\ meeting.status = "ongoing"
    /\ res.user = meeting.host
    /\ \E m \in Intervals : qs.reminder[m].state = "delayed"

\* C12: statistics.peakParticipants is at least the number of participants joined.
C12_PeakCoversJoined ==
    meeting # NoMeeting => meeting.statistics.peakParticipants >= JoinedCount(meeting)

\* C13: the participant list has at most one entry per user, concurrent joins included.
C13_OneEntryPerUser ==
    meeting # NoMeeting =>
        \A i, j \in DOMAIN meeting.participants :
            meeting.participants[i].user = meeting.participants[j].user => i = j

\* C14: scheduleMeeting with scheduledFor in the future answers 201, persists a
\* scheduled meeting whose host entry has role host and status invited, and
\* calls scheduleReminders.
C14_FutureScheduleSucceeds ==
    [][\A u \in Users, sf \in ScheduleDates, s \in SettingsInputs :
          (ScheduleMeeting(u, sf, s) /\ sf > now)
            => /\ res'.code = 201
               /\ meeting' # NoMeeting
               /\ meeting'.status = "scheduled"
               /\ meeting'.participants = <<Participant(u, "host", "invited", now)>>
               /\ qs'.scheduled]_vars

\* C15: scheduleReminders makes one reminder for each interval m of 60, 30, 15, 5
\* with scheduledFor - m minutes later than now, under the id of m and with the
\* delay scheduledFor - m minutes - now, and none for the other intervals.
C15_OneReminderPerDueInterval ==
    [][\A offset \in ScheduleOffsets :
          ScheduleRemindersCall(offset) =>
            LET scheduledFor == now + offset * 60000
                later == {m \in {60, 30, 15, 5} : scheduledFor - m * 60000 > now}
            IN IF qs.initialized
               THEN \A m \in {60, 30, 15, 5} :
                       IF m \in later
                       THEN /\ qs'.reminder[m].state = "delayed"
                            /\ qs'.reminder[m].delay = scheduledFor - m * 60000 - now
                       ELSE qs'.reminder[m].state = "none"
               ELSE /\ {tm.minutes : tm \in qs'.timers} = later
                    /\ Cardinality(qs'.timers) = Cardinality(later)
                    /\ \A tm \in qs'.timers :
                          tm.delay = scheduledFor - tm.minutes * 60000 - now]_vars

\* a meeting 20 minutes out has the 15 and 5 minute reminders only
C15_TwentyMinutesOut ==
    /\ res.op = "scheduleReminders"
    /\ qs.reminder[60].state = "none"
    /\ qs.reminder[30].state = "none"
    /\ qs.reminder[15].state = "delayed"
    /\ qs.reminder[15].delay = 5 * 60000
    /\ qs.reminder[5].state = "delayed"
    /\ qs.reminder[5].delay = 15 * 60000

\* C16: after cancelReminders no reminder is pending: no delayed job in the
\* queue and no timer of the fallback.
C16_CancelLeavesNothingPending ==
    [][CancelRemindersCall =>
          /\ \A m \in Intervals : qs'.reminder[m].state # "delayed"
          /\ qs'.timers = {}]_vars

\* C17: while the meeting is cancelled no reminder mail is sent.
C17_NoMailAfterCancel ==
    [][(meeting # NoMeeting /\ meeting.status = "cancelled") => qs'.sent = qs.sent]_vars

\* C18: without the queues every enqueue is carried out: a mail, a MOM generation
\* and a recording job at once, a reminder by a timer.
C18_FallbackCarriesOut ==
    [][~qs.initialized =>
          /\ AddEmailJobCall(MinutesMail) => MinutesMail \in qs'.sent
          /\ AddMomGenerationJob => res'.msg = "executed"
          /\ AddRecordingJob => res'.msg = "executed"
          /\ \A offset \in ScheduleOffsets :
                ScheduleRemindersCall(offset) =>
                    {tm.minutes : tm \in qs'.timers} = DueIntervals(now + offset * MsPerMinute, now)]_vars

\* C19: once shutdown has begun no enqueue adds to a queue, starts a timer or is executed.
C19_ShutdownRejects ==
    [][qs.phase \in {"closing", "closed"} =>
          /\ AddEmailJobCall(MinutesMail) => (qs'.email = qs.email /\ qs'.sent = qs.sent)
          /\ AddMomGenerationJob => qs'.momGeneration = qs.momGeneration
          /\ AddRecordingJob => qs'.recording = qs.recording
          /\ \A offset \in ScheduleOffsets :
                ScheduleRemindersCall(offset) =>
                    (qs'.reminder = qs.reminder /\ qs'.timers = qs.timers)]_vars

\* the sockets a payload's `to` names, by user id or by socket id
Matching(srv, to) ==
    {j \in DOMAIN srv.sockets : srv.sockets[j].userId = to \/ srv.sockets[j].id = to}

\* exactly one socket, one that `to` names, receives the event, stamped with the sender's user id
OneReceives(srv, out, i, event, to) ==
    \E j \in Matching(srv, to) :
        out = {[socket |-> srv.sockets[j].id, event |-> event,
                from |-> srv.sockets[i].userId, to |-> to]}

\* a signaling event that carries `to` has been handled
SignalHandled == io.in.event \in SignalEvents /\ io.in.to # NoTo

\* C20 as stated: every offer, answer or ice-candidate that carries `to` is
\* emitted to exactly one socket that `to` names, stamped with the sender's user id.
C20_ExactlyOneReceives ==
    SignalHandled => OneReceives(io, io.out, io.in.socket, io.in.event, io.in.to)

\* C20 amended: when a connected socket is named by `to`, exactly one such socket
\* receives the event, stamped with the sender's user id whatever the client's
\* from; when none is, nobody receives anything.
C20_OneOrNoneReceives ==
    SignalHandled =>
        IF Matching(io, io.in.to) # {}
        THEN OneReceives(io, io.out, io.in.socket, io.in.event, io.in.to)
        ELSE io.out = {}

\* one of the two sockets of a user received a signal that another user sent
\* under a from that is not its own, with all three sockets in the room
C20_OneOfTwoSocketsReceived ==
    /\ SignalHandled
    /\ Len(io.sockets) = 3
    /\ \A j \in DOMAIN io.sockets : io.sockets[j].inRoom
    /\ io.in.from # 0
    /\ io.in.from # io.sockets[io.in.socket].userId
    /\ Cardinality(Matching(io, io.in.to)) = 2
    /\ io.in.socket \notin Matching(io, io.in.to)
    /\ Cardinality(io.out) = 1

\* C29: of the calls of checkRateLimit on one key whose cache calls all
\* succeeded, the first RateLimit that count in a window of RateWindow seconds
\* (opened by the window's first increment) return allowed = true, the next
\* returns allowed = false, and the first one counted after the window is over
\* returns allowed = true again, however the calls interleave.
C29_WindowedLimit ==
    \A r \in RateCalls :
        LET c == cache.calls[r] IN
        (c.pc = "done" /\ c.counted /\ ~c.threw) => c.result.allowed = c.expect

\* C27: when a completed minutes record exists, generate is refused (400
\* "Meeting minutes already generated" for the host, 403 for anyone else), the
\* LLM is not called, no mail is sent and the record stays as it is.
C27_CompletedIsFinal ==
    [][\A u \in Users, reply \in LlmReplies, mailer \in BOOLEAN :
          (GenerateMinutes(u, reply, mailer) /\ mom.record.status = "completed")
            => /\ IF u = meeting.host
                  THEN res'.code = 400 /\ res'.msg = "Meeting minutes already generated"
                  ELSE res'.code = 403
               /\ mom'.record = mom.record
               /\ ~mom'.run.llm
               /\ ~mom'.run.mailed]_vars

\* the host asked for the minutes a second time and was refused
C27_SecondGenerateRefused ==
    /\ res.op = "generate"
    /\ res.code = 400
    /\ res.user = meeting.host
    /\ mom.record.status = "completed"
    /\ mom.record.summary = "parsed"
    /\ mom.run = NoRun

\* C28: a minutes record made from an LLM response that is no JSON (placeholder
\* summary, empty arrays) is never marked completed.
C28_DegradedNeverCompleted ==
    mom.record.summary = "placeholder" => mom.record.status # "completed"

\* the messages of the persisted chat log
Persisted(log) == {log[k] : k \in DOMAIN log}

\* C25: a chat-message that sockets of the room received is in the persisted
\* chat log of the meeting, so that the chat history read afterwards has it.
C25_BroadcastIsPersisted ==
    chat.cast.sockets # {} =>
        /\ chat.cast.message \in Persisted(chat.log)
        /\ chat.cast.message \in Persisted(ChatHistory(meeting, chat.log))

\* C26: with settings.enableChat false, a chat send over HTTP by a user who is
\* not the host is answered 403 (500 when the database fails), and no message
\* of a user who is not the host gets into the chat log.
C26_DisabledChatRefused ==
    (meeting # NoMeeting /\ ~meeting.settings.enableChat) =>
        /\ (res.op = "chat" /\ res.user # meeting.host) => res.code \in {403, 500}
        /\ \A message \in Persisted(chat.log) : message.sender = meeting.host

\* the events of one kind a join-meeting handler emitted
EmittedOf(j, event) == {k \in DOMAIN j.emitted : j.emitted[k].event = event}

\* C21: a join-meeting handler whose lookups succeeded has emitted user-joined
\* exactly once, to the other sockets of the room and not to the joining one,
\* and existing-participants to the joining socket alone, listing exactly the
\* other sockets in the room at that moment (nothing when the room has no other).
C21_JoinAnnouncedOnce ==
    \A id \in SocketIds :
        LET j == joins[id] IN
        (j.pc = "done" /\ ~j.failed) =>
            /\ Cardinality(EmittedOf(j, "user-joined")) = 1
            /\ \A k \in EmittedOf(j, "user-joined") :
                  j.emitted[k].sockets = j.emitted[k].others /\ id \notin j.emitted[k].sockets
            /\ \A k \in EmittedOf(j, "existing-participants") :
                  j.emitted[k].sockets = {id} /\ j.emitted[k].list = j.emitted[k].others

\* C23: after the disconnect handler of a socket that had joined the meeting,
\* the presence hash no longer lists the socket's user.
C23_DisconnectClearsPresence ==
    (io.in.event = "disconnect" /\ io.in.from # 0) =>
        io.in.from \notin GetOnlineUsers(cache, TRUE)

\* C24: muted-by-host or removed-from-meeting reaches a socket only when the
\* socket that sent mute-participant / remove-participant is the meeting host's
\* (no participant holds canMuteOthers or canRemoveOthers: both default to false
\* and nothing sets them); sent from another socket of the room it reaches no one.
C24_OnlyHostControls ==
    (/\ io.in.event \in HostControlEvents
     /\ meeting # NoMeeting
     /\ io.sockets[io.in.socket].inRoom
     /\ io.sockets[io.in.socket].userId # meeting.host) => io.out = {}

\* C30: a join-meeting handler waiting for addOnlineUser can always go on to
\* its emissions, whatever the state of the cache store.
C30_CacheNeverHoldsJoin ==
    \A id \in SocketIds :
        (joins[id].pc = "cache" /\ Received) => ENABLED (\E ok \in BOOLEAN : JoinCache(id, ok))

\* C22: no client emits an offer from its user-joined listener: an offer is
\* made by the joiner alone, for the members listed in existing-participants.
C22_OnlyJoinerOffers ==
    \A e \in peers.outbox : e.event = "offer" => e.cause = "existing-participants"

\* the participant entries with role host
HostEntries(m) == {i \in DOMAIN m.participants : m.participants[i].role = "host"}

\* C37: a meeting has exactly one participant entry with role host, and
\* meeting.host is the user of that entry, after any sequence of create, join,
\* leave (with succession), end and cancel requests served one at a time.
C37_HostPointerMatchesRole ==
    meeting # NoMeeting =>
        /\ Cardinality(HostEntries(meeting)) = 1
        /\ \A i \in HostEntries(meeting) : meeting.participants[i].user = meeting.host

\* the creator left, another user succeeded as host, and the creator is back
\* in the meeting as a participant
C37_FormerHostRejoined ==
    /\ meeting # NoMeeting
    /\ meeting.host # meeting.participants[1].user
    /\ meeting.participants[1].status = "joined"
    /\ meeting.participants[1].role = "participant"
    /\ \E i \in HostEntries(meeting) : meeting.participants[i].status = "joined"

\* C40: the statistics.totalDuration stored by endMeeting is never negative.
C40_DurationNeverNegative ==
    meeting # NoMeeting => meeting.statistics.totalDuration >= 0

\* C33: statistics.chatMessages equals the number of entries of chat[],
\* however the chat sends over HTTP and over the socket interleave.
C33_CounterMatchesLog ==
    chat.chatMessages = Len(chat.log)

\* the MeetingMinutes records of the meeting
RecordCount(m) == (IF m.record = NoRecord THEN 0 ELSE 1) + Len(m.others)

\* C34: at most one MeetingMinutes record exists for the meeting, also when
\* generate requests are served concurrently.
C34_OneRecordPerMeeting ==
    RecordCount(mom) <= 1

\* C35: of two sockets of a room at most one has received the other in an
\* existing-participants event, however their join-meeting handlers interleave.
C35_OneSideInitiates ==
    \A s, t \in SocketIds :
        ~(<<s, t>> \in peers.listed /\ <<t, s>> \in peers.listed)

\* C39: a socket is in at most one meeting room, the one of socket.meetingId,
\* and after its leave-meeting event it is no longer in the room it left.
C39_OneRoomPerSocket ==
    /\ \A j \in DOMAIN io.sockets :
          /\ Cardinality(io.sockets[j].rooms) <= 1
          /\ io.sockets[j].rooms \subseteq {io.sockets[j].meetingId}
    /\ io.in.event = "leave-meeting" => io.in.to \notin io.sockets[io.in.socket].rooms

\* the sockets of other clients that are in some meeting room, none of which
\* the socket at index i has joined
Strangers(srv, i) ==
    {srv.sockets[j].id : j \in {k \in DOMAIN srv.sockets :
                                   /\ k # i
                                   /\ srv.sockets[k].rooms # {}
                                   /\ srv.sockets[k].rooms \cap srv.sockets[i].rooms = {}}}

\* C36: a signaling or control event of a socket that has joined a meeting
\* room is delivered to no socket of the rooms it has not joined, whatever
\* meetingId or `to` its payload names.
C36_RoomIsolation ==
    (/\ io.in.event \in SignalEvents \cup BroadcastEvents
     /\ io.sockets[io.in.socket].rooms # {}) =>
        \A d \in io.out : d.socket \notin Strangers(io, io.in.socket)

\* C31: a job whose handler fails on every attempt has been attempted 3 times on
\* the email and reminder queues and 2 times on the momGeneration and recording
\* queues when it is given up
C31_AttemptsBeforeGivingUp ==
    qs.job.state = "failed" =>
        qs.job.attemptsMade =
            IF qs.job.queue \in {"email", "reminder"} THEN 3 ELSE 2

\* C32: an email job whose SMTP submission failed at transport level is failed
\* or waits for its retry, and is not completed
C32_TransportFailureFailsJob ==
    (qs.job.queue = "email" /\ qs.job.fault = "transport") =>
        qs.job.state \in {"waiting", "failed"}

\* C38: a cancelReminders call issued once the service is initialized leaves no
\* reminder pending on a fallback timer: the timers made by scheduleReminders
\* before the initialization are cleared, so none of them sends a mail
C38_CancelClearsEarlierTimers ==
    [][(CancelRemindersCall /\ qs.initialized) => qs'.timers = {}]_vars

============================================================================
